---- MODULE Spec2Model ----
(***************************************************************************)
(* Maintenance scripts of the a0-plugins repository, as state machines.    *)
(*                                                                         *)
(*   SpecSweep    scripts/close_inactive_failing_prs.py  (stale-PR sweep)  *)
(*   SpecValidate scripts/validate_pr.py                 (PR validator)    *)
(*   SpecYaml     scripts/validate_pr.py                 (plugin.yaml)     *)
(*   SpecIndex    scripts/ensure_plugin_discussions.py   (index.json)      *)
(*   SpecSerialize  _save_index of both index writers   (serialization)   *)
(*   SpecStars    scripts/update_index_stars.py          (apply pass)      *)
(*   SpecLoad     _load_index of both index readers                        *)
(*   SpecSync     scripts/ensure_plugin_discussions.py   (main, run after  *)
(*                run, against the discussions GitHub holds)               *)
(*   SpecWriters  the two runs that load and write index.json              *)
(*   SpecPublish  scripts/publish_index_release.py       (release asset)   *)
(*   SpecNetwork  the runs whose calls can fail: publish and sweep         *)
(*   SpecPrune    _prune_removed_plugins on its own                        *)
(*   SpecDetect   _detected_plugin_names on its own                        *)
(*   SpecTwoPass  scripts/update_index_stars.py: scan pass, a discussion   *)
(*                sync between the passes, apply pass                      *)
(*   SpecRace     scripts/publish_index_release.py, two runs at once       *)
(*                                                                         *)
(* Each specification drives one script; the variables of the other        *)
(* scripts stay at their idle values.                                      *)
(***************************************************************************)
EXTENDS Integers, Sequences, FiniteSets, TLC

\* ------------------------------------------------------------------ bounds

\* Pages the API hands out in one sweep.
MaxPages == 2
\* Nodes the API hands out in one sweep, over all pages.
MaxPRs == 3
\* Entries of one `git diff --name-status` listing.
MaxChanges == 2
\* Runs of the discussion sync the workflow starts in a row.
MaxRuns == 2

\* ------------------------------------------------------- stale-PR sweep

VARIABLES
  sw_pc,        \* where main() is: "start" | "fetch" | "scan" | "done" | "failed"
  dry_run,      \* DRY_RUN == "1"
  cutoff,       \* _utcnow() - timedelta(days=inactivity_days)
  cursor,       \* pages fetched so far (0: cursor is None)
  pending,      \* nodes of the current page the for loop has not reached yet
  page_info,    \* pageInfo of the current page: [ok, has_next, end_cursor]
  scanned,      \* main()'s counter
  closed,       \* main()'s counter
  queries,      \* GraphQL queries _graphql has issued
  requests,     \* the REST requests _request_json has issued, in order
  to_close,     \* the PRs main() handed to _close_pr: [number, pr]
  gh_closed,    \* GitHub: numbers of the PRs a PATCH has set to closed
  gh_comments,  \* GitHub: the PR numbers that hold the bot's comment
  delivered,    \* nodes handed to the for loop so far
  evaluated,    \* numbers of the PRs whose check rollup main() inspected
  stopped_at,   \* number of the node at which main() stopped early (0: none)
  h_drafts,     \* history: numbers of the draft PRs delivered
  h_expected,   \* history: non-draft PRs delivered before the first active one
  h_active,     \* history: a non-draft PR with updatedAt >= cutoff was delivered
  h_last,       \* history: updatedAt of the last PR delivered (while ascending)
  h_ascending,  \* history: the PRs came in ascending updatedAt order
  sw_failures   \* history: the calls _request_json rejected: [kind, at], at
                \*   the number of calls issued up to and including it

sweepVars == <<sw_pc, dry_run, cutoff, cursor, pending, page_info, scanned,
               closed, queries, requests, to_close, gh_closed, gh_comments,
               delivered, evaluated, stopped_at, h_drafts, h_expected, h_active, h_last,
               h_ascending, sw_failures>>

VARIABLES
  v_pc,          \* where main() is: "diff" | "tree" | "yaml" | "thumb" | "deleted" | "done"
  v_result,      \* "none" while running, "ok" (return 0) or the failure raised
  changes,       \* _get_changed_files: entries [status, old, path]
  plugin_files,  \* _git_ls_tree_names(head_sha, plugin_root_path)
  thumbnails,    \* main()'s list of thumbnail paths
  doc,           \* the YAML document of plugin.yaml at the head commit
  repo,          \* what api.github.com answers for the document's github URL
  thumb          \* the thumbnail file at the head commit: [size, decodes, w, h]

valVars == <<v_pc, v_result, changes, plugin_files, thumbnails, doc, repo, thumb>>

VARIABLES
  ix_pc,    \* "load" | "ready" | "dirty" | "saved" | "reloaded" | "failed"
  index,    \* the index dict in memory: its items, in insertion order
  disk,     \* index.json: [exists, text]
  worktree, \* the working tree: the paths of the files under plugins/
  env,      \* the environment: [repository, ref_name]
  h_name,   \* history: plugin_name of the last upsert
  h_meta,   \* history: meta of the last upsert
  h_url,    \* history: discussion_url of the last upsert
  h_prior,  \* history: the index as the last upsert found it (<<>> once saved)
  reads,    \* how often the run has read index.json
  writes,   \* how often the run has written index.json
  h_load,   \* history: how the last _load_index ended: "none" | "ok" | "failed"
  h_loaded  \* history: the index as the last _load_index returned it

indexVars == <<ix_pc, index, disk, worktree, env, h_name, h_meta, h_url, h_prior,
               reads, writes, h_load, h_loaded>>

VARIABLES
  st_pc,      \* where update_index_stars.py is: "idle" | "scan" | "batches" |
              \* "scan_failed" | "scanned" | "load" | "loaded" | "done" | "failed"
  updates,    \* the updates file: [exists, text]
  chunk_size, \* STARS_CHUNK_SIZE
  sc_items,   \* `items` of _scan_and_write_updates: <<plugin_name, owner, repo>>
  batch,      \* the batches of _chunks(items, chunk_size) the loop has been through
  sc_updates, \* the dict `updates` of _scan_and_write_updates
  h_queries,  \* history: the queries sent, each the <<alias, owner, repo>> of its blocks
  h_disk0     \* history: index.json as the scan pass met it

scanVars == <<chunk_size, sc_items, batch, sc_updates, h_queries, h_disk0>>
starsVars == <<st_pc, updates, scanVars>>

VARIABLES
  sy_pc,         \* where main() is: "idle" | "start" | "load" | "setup" | "loop"
                 \*   | "done" | "failed"
  run_all,       \* RUN_ALL == "1"
  plugin_names,  \* _detected_plugin_names(before, after, run_all)
  pos,           \* the place of `for plugin_name in plugin_names` (1-based)
  index_before,  \* json.dumps(index, sort_keys=True) after the load
  discussions,   \* GitHub: the discussions of the repository, by number:
                 \*   [marker, title, closed]
  ranking,       \* GitHub: how search orders its hits: "oldest" | "newest"
  repeats,       \* this run repeats the run before it, which ended with 0
  max_plugins,   \* int(MAX_PLUGINS), DEFAULT_MAX_PLUGINS where it is not set
  h_prev,        \* history: [ok, names, run_all, same_tree, fields, touched]
                 \*   of the run before, disk, index.json as this run met it,
                 \*   and n, the number of runs before this one
  h_created,     \* history: numbers of the discussions this run created
  h_found,       \* history: what the lookups of this run found: [id, closed]
  h_reopened,    \* history: numbers this run sent reopenDiscussion for
  h_closed0,     \* history: numbers of the discussions closed before any run
  h_lookup,      \* history: the last lookup: [name, found, n] with n the
                 \*   number of discussions GitHub held at that time
  h_searched     \* history: the names this run sent a discussion search for

syncVars == <<sy_pc, run_all, plugin_names, pos, index_before, discussions,
              ranking, repeats, max_plugins, h_prev, h_created, h_found,
              h_reopened, h_closed0, h_lookup, h_searched>>

VARIABLES
  ser_pc,      \* "idle" | "start" | "done"
  ser_script,  \* whose _save_index runs: "ensure" | "stars"
  left,        \* an index dict in memory: its items, in insertion order
  right,       \* another one
  left_text,   \* the text _save_index writes for left
  right_text   \* the text _save_index writes for right

serVars == <<ser_pc, ser_script, left, right, left_text, right_text>>

VARIABLES
  pb_pc,        \* where main() is: "idle" | "start" | "lookup" | "create" | "get"
                \*   | "upload" | "delete" | "reget" | "reupload" | "done" | "failed"
  pb_exit,      \* the exit status of the process: "none" while it runs, "0", "1"
  pb_requests,  \* the requests sent to GitHub, in order: [method, what, n]
  pb_failures,  \* the calls that failed, in order: [req, kind, at], at the
                \*   place of the request in pb_requests
  release,      \* the release payload main() holds: the ids of its assets
                \*   named asset_name
  to_delete,    \* what _delete_existing_assets has yet to delete
  gh_release,   \* GitHub: the release of the tag exists
  gh_assets,    \* GitHub: ids of the assets named asset_name on the release
  rival,        \* GitHub: another publisher has uploaded in the meantime
  h_payload,    \* history: the payload main() held when its upload met a 422
  who,          \* the publish run whose main() the variables above describe:
                \*   "A" | "B"
  other,        \* the publish run that is not at its turn: [who, pc, exit,
                \*   requests, failures, release, to_delete, payload]
  h_uploads     \* history: the uploads GitHub took, in order: [id, by]

pubVars == <<pb_pc, pb_exit, pb_requests, pb_failures, release, to_delete,
             gh_release, gh_assets, rival, h_payload, who, other, h_uploads>>

VARIABLES
  fn_pc,      \* a function on its own: "idle" | "call" | "returned"
  fn_args,    \* the arguments of the call
  fn_result   \* what the call returned and left in its arguments

funVars == <<fn_pc, fn_args, fn_result>>

\* What each script leaves alone.
notSweepVars == <<valVars, indexVars, serVars, starsVars, syncVars, pubVars, funVars>>
notValVars == <<sweepVars, indexVars, serVars, starsVars, syncVars, pubVars, funVars>>
notIndexVars == <<sweepVars, valVars, serVars, starsVars, syncVars, pubVars, funVars>>
notSerVars == <<sweepVars, valVars, indexVars, starsVars, syncVars, pubVars, funVars>>
notStarsVars == <<sweepVars, valVars, serVars, syncVars, pubVars, funVars>>
notSyncVars == <<sweepVars, valVars, serVars, starsVars, pubVars, funVars>>
notPubVars == <<sweepVars, valVars, indexVars, serVars, starsVars, syncVars, funVars>>
notFunVars == <<sweepVars, valVars, indexVars, serVars, starsVars, syncVars, pubVars>>

vars == <<sweepVars, valVars, indexVars, serVars, starsVars, syncVars, pubVars, funVars>>

\* INACTIVITY_DAYS, by default.
INACTIVITY_DAYS == 7

\* Time in whole days, the sweep running on day 0: the PRs were last updated
\* 10, 8, 7 (the cutoff day itself) and 3 days ago.
Stamps == {-(INACTIVITY_DAYS + 3), -(INACTIVITY_DAYS + 1), -INACTIVITY_DAYS,
           -(INACTIVITY_DAYS - 4)}
Earliest == -(INACTIVITY_DAYS + 3)

\* statusCheckRollup.state as the API may hand it out: the StatusState enum,
\* a string outside it, or nothing (no commit, no rollup, state not a string).
RollupStates == {"FAILURE", "ERROR", "SUCCESS", "PENDING", "EXPECTED",
                 "UNKNOWN", "None"}

\* One element of pullRequests.nodes. stamp is what pr.get("updatedAt") holds:
\* "str" an RFC3339 string (updatedAt its day), "bad" a string that does not
\* parse, "none" not a string. number_ok: pr.get("number") is an int.
\* A node without a usable number or timestamp carries a FAILURE rollup, the
\* state that would get it closed if main() went on to read it.
PRNodes ==
  [shape : {"dict"}, isDraft : BOOLEAN, stamp : {"str"}, updatedAt : Stamps,
   number_ok : {TRUE}, rollup : RollupStates]
  \cup [shape : {"dict"}, isDraft : BOOLEAN, stamp : {"str"}, updatedAt : Stamps,
        number_ok : {FALSE}, rollup : {"FAILURE"}]
  \cup [shape : {"dict"}, isDraft : BOOLEAN, stamp : {"bad", "none"},
        updatedAt : {Earliest}, number_ok : {TRUE}, rollup : {"FAILURE"}]
  \cup [shape : {"other"}, isDraft : {FALSE}, stamp : {"none"},
        updatedAt : {Earliest}, number_ok : {FALSE}, rollup : {"None"}]

\* updated_dt >= cutoff: the PR is active, stop the sweep.
ReachedActive_gt(updated_dt, cut) == updated_dt > cut
ReachedActive(updated_dt, cut) == updated_dt >= cut

\* rollup_state in {"FAILURE", "ERROR"}
Qualifies_pending(rollup_state) == rollup_state \in {"FAILURE", "ERROR", "PENDING"}
Qualifies(rollup_state) == rollup_state \in {"FAILURE", "ERROR"}

Req(method, what, n) == [method |-> method, what |-> what, n |-> n]

\* _close_pr: the requests it issues, given how the network answers.
\* net: "ok" | "patch_fails" | "comment_fails".
ClosePrRequests_nodry(number, dry, net) ==
  IF net = "patch_fails" THEN <<Req("PATCH", "pulls", number)>>
  ELSE <<Req("PATCH", "pulls", number), Req("POST", "comments", number)>>
ClosePrRequests(number, dry, net) ==
  IF dry THEN <<>>
  ELSE IF net = "patch_fails" THEN <<Req("PATCH", "pulls", number)>>
  ELSE <<Req("PATCH", "pulls", number), Req("POST", "comments", number)>>

\* What main() does with one node of the page:
\* "skip" (continue), "stop" (return 0), "fail" (_fail), "close" (_close_pr).
NodeVerdict(pr, cut) ==
  IF pr.shape # "dict" THEN "skip"
  ELSE IF pr.isDraft THEN "skip"
  ELSE IF pr.stamp = "none" THEN "skip"
  ELSE IF pr.stamp = "bad" THEN "fail"
  ELSE IF ReachedActive(pr.updatedAt, cut) THEN "stop"
  ELSE IF ~pr.number_ok THEN "skip"
  ELSE IF ~Qualifies(pr.rollup) THEN "inspect"
  ELSE "close"

\* A node that is a pull request as the API's schema has it.
IsPR(pr) == pr.shape = "dict" /\ pr.stamp = "str" /\ pr.number_ok

\* The node is a non-draft PR whose updatedAt is not earlier than the cutoff.
IsActivePR(pr, cut) ==
  pr.shape = "dict" /\ ~pr.isDraft /\ pr.stamp = "str" /\ ~(pr.updatedAt < cut)

PageInfos ==
  [ok : {TRUE}, has_next : BOOLEAN, end_cursor : BOOLEAN]
  \cup [ok : {FALSE}, has_next : {FALSE}, end_cursor : {FALSE}]

NetOutcomes == {"ok", "patch_fails", "comment_fails"}

\* data = _graphql(query, variables), and the shape checks on the answer.
\* The feed ends after MaxPages pages and holds at most MaxPRs nodes.
FetchPage ==
  /\ sw_pc = "fetch"
  /\ cursor < MaxPages
  /\ queries' = queries + 1
  /\ \/ /\ \E kind \in {"http", "transport", "malformed"} :
             sw_failures' = Append(sw_failures,
                                   [kind |-> kind, at |-> queries + 1 + Len(requests)])
        /\ sw_pc' = "failed"
        /\ UNCHANGED <<pending, page_info>>
     \/ /\ sw_pc' = "failed"
        /\ UNCHANGED <<pending, page_info, sw_failures>>
     \/ /\ sw_pc' = "scan"
        /\ pending' \in 0..(MaxPRs - delivered)
        /\ page_info' \in {pi \in PageInfos :
                             cursor + 1 = MaxPages => ~(pi.has_next /\ pi.end_cursor)}
        /\ UNCHANGED sw_failures
  /\ UNCHANGED <<dry_run, cutoff, cursor, scanned, closed, requests, to_close,
                 gh_closed, gh_comments, delivered, evaluated, stopped_at,
                 h_drafts, h_expected,
                 h_active, h_last, h_ascending>>
  /\ UNCHANGED notSweepVars

\* One turn of `for pr in nodes`.
ScanNode ==
  /\ sw_pc = "scan"
  /\ pending > 0
  /\ \E pr \in PRNodes :
     \E net \in IF NodeVerdict(pr, cutoff) = "close" /\ ~dry_run
                THEN NetOutcomes ELSE {"ok"} :
       LET n       == delivered + 1
           verdict == NodeVerdict(pr, cutoff)
           reqs    == IF verdict = "close"
                        THEN ClosePrRequests(n, dry_run, net) ELSE <<>>
           issued  == {reqs[i] : i \in 1..Len(reqs)}
           patched == Req("PATCH", "pulls", n) \in issued /\ net # "patch_fails"
           posted  == Req("POST", "comments", n) \in issued /\ net = "ok"
           raised  == verdict = "close" /\ ~dry_run /\ net # "ok"
       IN
       /\ delivered' = n
       /\ pending' = pending - 1
       /\ scanned' = IF pr.shape = "dict" THEN scanned + 1 ELSE scanned
       /\ sw_pc' = CASE verdict = "fail" -> "failed"
                     [] verdict = "stop" -> "done"
                     [] raised -> "failed"
                     [] OTHER -> "scan"
       /\ stopped_at' = IF verdict = "stop" THEN n ELSE stopped_at
       /\ evaluated' = IF verdict \in {"inspect", "close"}
                         THEN evaluated \cup {n} ELSE evaluated
       /\ requests' = requests \o reqs
       /\ to_close' = IF verdict = "close"
                        THEN to_close \cup {[number |-> n, pr |-> pr]}
                        ELSE to_close
       /\ gh_closed' = IF patched THEN gh_closed \cup {n} ELSE gh_closed
       /\ gh_comments' = IF posted THEN gh_comments \cup {n} ELSE gh_comments
       /\ closed' = IF verdict = "close" /\ ~raised THEN closed + 1 ELSE closed
       /\ h_drafts' = IF pr.shape = "dict" /\ pr.isDraft
                        THEN h_drafts \cup {n} ELSE h_drafts
       /\ h_expected' = IF IsPR(pr) /\ ~pr.isDraft /\ ~h_active
                             /\ pr.updatedAt < cutoff
                          THEN h_expected \cup {n} ELSE h_expected
       /\ h_active' = (h_active \/ IsActivePR(pr, cutoff))
       /\ h_ascending' = (h_ascending /\
                           (pr.stamp = "str" => pr.updatedAt >= h_last))
       /\ h_last' = IF ~h_ascending' THEN Earliest
                    ELSE IF pr.stamp = "str" THEN pr.updatedAt ELSE h_last
       /\ sw_failures' = IF raised
                           THEN Append(sw_failures,
                                       [kind |-> "http",
                                        at |-> queries + Len(requests) + Len(reqs)])
                           ELSE sw_failures
  /\ UNCHANGED <<dry_run, cutoff, cursor, page_info, queries>>
  /\ UNCHANGED notSweepVars

\* After the for loop: pageInfo, hasNextPage, endCursor.
EndPage ==
  /\ sw_pc = "scan"
  /\ pending = 0
  /\ \/ /\ ~page_info.ok
        /\ sw_pc' = "failed"
        /\ UNCHANGED cursor
     \/ /\ page_info.ok
        /\ ~(page_info.has_next /\ page_info.end_cursor)
        /\ sw_pc' = "done"
        /\ UNCHANGED cursor
     \/ /\ page_info.ok
        /\ page_info.has_next
        /\ page_info.end_cursor
        /\ sw_pc' = "fetch"
        /\ cursor' = cursor + 1
  /\ UNCHANGED <<dry_run, cutoff, pending, page_info, scanned, closed,
                 queries, requests, to_close, gh_closed, gh_comments, delivered,
                 evaluated, stopped_at, h_drafts, h_expected, h_active, h_last, h_ascending,
                 sw_failures>>
  /\ UNCHANGED notSweepVars

\* --------------------------------------------------------- PR validator

ALLOWED_IMAGE_EXTS == {".png", ".jpg", ".jpeg", ".webp"}
MAX_IMAGE_BYTES == 20 * 1024
THUMBNAIL_BASENAME == "thumbnail"

\* str.startswith("_"), over the folder names of the model.
FirstChar(name) ==
  CASE name = "_r" -> "_"
    [] name = "a" -> "a"
    [] name = "b" -> "b"
    [] OTHER -> ""
StartsWithUnderscore(name) == FirstChar(name) = "_"

\* Path(name).suffix and Path(name).stem, over the file names of the model.
Suffix(name) ==
  CASE name = "plugin.yaml" -> ".yaml"
    [] name = "thumbnail.png" -> ".png"
    [] name = "Thumbnail.JPG" -> ".JPG"
    [] name = "logo.png" -> ".png"
    [] name = "README.md" -> ".md"
    [] OTHER -> ""
Stem(name) ==
  CASE name = "plugin.yaml" -> "plugin"
    [] name = "thumbnail.png" -> "thumbnail"
    [] name = "Thumbnail.JPG" -> "Thumbnail"
    [] name = "logo.png" -> "logo"
    [] name = "README.md" -> "README"
    [] OTHER -> name
\* str.lower()
Lower(str) ==
  CASE str = ".JPG" -> ".jpg"
    [] str = "Thumbnail" -> "thumbnail"
    [] str = "README" -> "readme"
    [] OTHER -> str

\* f.split("/")[-1]
BaseName(path) == path[Len(path)]

\* Files a plugin folder may hold, relative to its root.
RelFiles == {<<"plugin.yaml">>, <<"thumbnail.png">>, <<"Thumbnail.JPG">>,
             <<"logo.png">>, <<"README.md">>,
             <<"sub", "plugin.yaml">>, <<"sub", "thumbnail.png">>}

RootOf(name) == <<"plugins", name>>

\* Paths a diff may name.
ChangePaths ==
  {<<"README.md">>, <<"plugins", "index.json">>}
  \cup {RootOf("a") \o r : r \in RelFiles}
  \cup {RootOf(n) \o r : n \in {"b", "_r"},
                         r \in {<<"plugin.yaml">>, <<"thumbnail.png">>}}

\* Where a renamed file may have come from.
RenameSources == {<<"README.md">>, <<"plugins", "b", "thumbnail.png">>,
                  <<"plugins", "a", "logo.png">>}

\* One line of `git diff --name-status`: A|M|D <tab> path, or
\* R100 <tab> old <tab> new. _get_changed_files keeps (parts[0], parts[-1]).
ChangeLines ==
  [status : {"A", "M", "D"}, old : {<<>>}, path : ChangePaths]
  \cup {l \in [status : {"R100"}, old : RenameSources, path : ChangePaths] :
          l.old # l.path}

\* status.startswith("D")
IsDeletion_rename(status) == status = "R100"
IsDeletion(status) == status = "D"

\* The listings git can print: each path once, a rename's source not listed again.
WellFormedDiff(ls) ==
  /\ \A l1, l2 \in ls : l1.path = l2.path => l1 = l2
  /\ \A l1, l2 \in ls : l1.old # l2.path

RECURSIVE DiffsUpTo(_)
DiffsUpTo(k) ==
  IF k = 0 THEN {{}}
  ELSE LET smaller == DiffsUpTo(k - 1)
       IN smaller \cup {ls \cup {l} : ls \in smaller, l \in ChangeLines}

Diffs == {ls \in DiffsUpTo(MaxChanges) : WellFormedDiff(ls)}

\* main(), lines 229-259: the checks on the changed paths.
\* "none": go on to the plugin folder.
ScopeVerdict(chs) ==
  IF chs = {} THEN "NoChanges"
  ELSE IF \E c \in chs : Len(c.path) < 3 \/ c.path[1] # "plugins" THEN "OutOfScope"
  ELSE LET plugin_roots == {SubSeq(c.path, 1, 2) : c \in chs}
       IN IF Cardinality(plugin_roots) # 1 THEN "MultiplePluginsTouched"
          ELSE IF \E r \in plugin_roots : StartsWithUnderscore(r[2])
                 THEN "ReservedName"
          ELSE "none"

\* plugin_root_rel, once ScopeVerdict is "none".
PluginRoot(chs) == CHOOSE r \in {SubSeq(c.path, 1, 2) : c \in chs} : TRUE

\* `git ls-tree -r --name-only` lists paths in byte order.
GitOrder == <<<<"README.md">>, <<"Thumbnail.JPG">>, <<"logo.png">>,
              <<"plugin.yaml">>, <<"sub", "plugin.yaml">>,
              <<"sub", "thumbnail.png">>, <<"thumbnail.png">>>>
GitRank(path) ==
  CHOOSE i \in 1..Len(GitOrder) : GitOrder[i] = SubSeq(path, 3, Len(path))

\* What the loop over plugin_files does with one file:
\* "declaration" and "thumbnail" are accepted, the others raise.
FileVerdict(f) ==
  IF BaseName(f) = "plugin.yaml" THEN "declaration"
  ELSE IF Lower(Suffix(BaseName(f))) \in ALLOWED_IMAGE_EXTS
    THEN IF Lower(Stem(BaseName(f))) # THUMBNAIL_BASENAME
           THEN "BadThumbnailName" ELSE "thumbnail"
  ELSE "UnsupportedFile"

\* The thumbnails list main() has built when the loop ends.
ThumbnailsOf(files) == {f \in files : FileVerdict(f) = "thumbnail"}

\* main(), lines 261-290: the checks on the files of the plugin folder.
FolderVerdict(root, files) ==
  LET bad == {f \in files : FileVerdict(f) \notin {"declaration", "thumbnail"}}
  IN IF files = {} THEN "FolderMissing"
     ELSE IF (root \o <<"plugin.yaml">>) \notin files THEN "MissingDeclaration"
     ELSE IF bad # {}
       THEN FileVerdict(CHOOSE f \in bad : \A g \in bad : GitRank(f) <= GitRank(g))
     ELSE IF Cardinality(ThumbnailsOf(files)) > 1 THEN "MultipleThumbnails"
     ELSE "none"

\* ------------------------------------------------- plugin.yaml documents

ALLOWED_YAML_KEYS == {"title", "description", "github", "tags"}
REQUIRED_YAML_KEYS == {"title", "description", "github"}
MAX_TAGS == 5
MAX_TITLE_LENGTH == 50
MAX_DESCRIPTION_LENGTH == 500

\* A YAML scalar as the checks see it: a string of len characters of which
\* slen remain after strip(), or a value that is no string.
Str(len, slen) == [kind |-> "str", len |-> len, slen |-> slen]
NonStr == [kind |-> "int", len |-> 0, slen |-> 0]
Absent == [kind |-> "absent", len |-> 0, slen |-> 0]

TitleValues ==
  {NonStr, Str(0, 0), Str(2, 0), Str(1, 1), Str(MAX_TITLE_LENGTH, MAX_TITLE_LENGTH),
   Str(MAX_TITLE_LENGTH + 1, MAX_TITLE_LENGTH)}
DescriptionValues ==
  {NonStr, Str(0, 0), Str(2, 0), Str(MAX_DESCRIPTION_LENGTH, MAX_DESCRIPTION_LENGTH),
   Str(MAX_DESCRIPTION_LENGTH + 1, MAX_DESCRIPTION_LENGTH + 1)}

\* The github value: url is what the string holds once stripped ("https",
\* "http": it begins with that scheme and ://; "ftp": another scheme; "text":
\* no URL), lead: the raw string begins with whitespace.
Url(kind, len, slen, url, lead) ==
  [kind |-> kind, len |-> len, slen |-> slen, url |-> url, lead |-> lead]
GithubValues ==
  {Url("int", 0, 0, "text", FALSE), Url("str", 0, 0, "text", FALSE),
   Url("str", 2, 0, "text", FALSE), Url("str", 5, 5, "text", FALSE),
   Url("str", 20, 20, "https", FALSE), Url("str", 19, 19, "http", FALSE),
   Url("str", 21, 20, "https", TRUE), Url("str", 18, 18, "ftp", FALSE)}
GithubAbsent == Url("absent", 0, 0, "text", FALSE)

\* The tags value: null, a non-list, or a list of n items which are all
\* non-blank strings ("ok") or hold a non-string, an empty string or a
\* whitespace-only string.
Tags(kind, n, items) == [kind |-> kind, n |-> n, items |-> items]
TagsValues ==
  {Tags("null", 0, "ok"), Tags("str", 0, "ok"), Tags("list", 0, "ok"),
   Tags("list", 1, "ok"), Tags("list", 1, "nonstr"), Tags("list", 1, "empty"),
   Tags("list", 1, "blank"), Tags("list", MAX_TAGS, "ok"),
   Tags("list", MAX_TAGS + 1, "ok"), Tags("list", MAX_TAGS + 1, "blank")}
TagsAbsent == Tags("absent", 0, "ok")

YamlKeys == ALLOWED_YAML_KEYS \cup {"author"}

\* yaml.safe_load of the file: "invalid" (not UTF-8, not YAML), a document
\* that is no mapping, or a mapping with its keys and values.
NoMapping(top) ==
  [top |-> top, keys |-> {}, title |-> Absent, description |-> Absent,
   github |-> GithubAbsent, tags |-> TagsAbsent]
MakeDoc(t, d, g, tg, extra) ==
  [top |-> "mapping",
   keys |-> {k \in {"title"} : t # Absent} \cup {k \in {"description"} : d # Absent}
            \cup {k \in {"github"} : g # GithubAbsent}
            \cup {k \in {"tags"} : tg # TagsAbsent} \cup extra,
   title |-> t, description |-> d, github |-> g, tags |-> tg]
Docs ==
  {NoMapping("invalid"), NoMapping("list"), NoMapping("null")}
  \cup {MakeDoc(t, d, g, tg, extra) :
          t \in TitleValues \cup {Absent}, d \in DescriptionValues \cup {Absent},
          g \in GithubValues \cup {GithubAbsent}, tg \in TagsValues \cup {TagsAbsent},
          extra \in SUBSET (YamlKeys \ ALLOWED_YAML_KEYS)}

\* What _validate_github_repo meets: the URL's host is not github.com, its
\* path has fewer than two segments, the repository lookup fails, its answer
\* names no default branch, the fetch of plugin.yaml fails, or all is well.
Repos == {"ok", "not_github", "short_path", "no_repo", "no_default_branch",
          "no_plugin_yaml"}

\* _validate_github_repo
RepoVerdict(r) ==
  CASE r \in {"not_github", "short_path"} -> "RepoUnresolvable"
    [] r = "no_repo" -> "RepoLookupFailed"
    [] r = "no_default_branch" -> "NoDefaultBranch"
    [] r = "no_plugin_yaml" -> "RepoMissingDeclaration"
    [] OTHER -> "none"

\* isinstance(v, str) and v.strip()
NonBlankStr_nostrip(v) == v.kind = "str" /\ v.len > 0
NonBlankStr(v) == v.kind = "str" /\ v.slen > 0

TitleTooLong(title) == title.len > MAX_TITLE_LENGTH

\* the checks on tags, lines 126-136
TagsVerdict(tags) ==
  IF tags.kind = "null" THEN "TagsInvalid"
  ELSE IF tags.kind # "list" \/ tags.items # "ok" THEN "TagsInvalid"
  ELSE IF tags.n > MAX_TAGS THEN "TooManyTags"
  ELSE "none"

\* _validate_yaml_bytes: "none" when it returns, else the failure it raises.
ValidateYaml(d, r) ==
  IF d.top = "invalid" THEN "InvalidYaml"
  ELSE IF d.top # "mapping" THEN "NotMapping"
  ELSE IF d.keys \ ALLOWED_YAML_KEYS # {} THEN "UnsupportedFields"
  ELSE IF REQUIRED_YAML_KEYS \ d.keys # {} THEN "MissingFields"
  ELSE IF ~NonBlankStr(d.title) \/ ~NonBlankStr(d.description)
           \/ ~NonBlankStr(d.github) THEN "FieldNotNonEmptyString"
  ELSE IF TitleTooLong(d.title) THEN "TitleTooLong"
  ELSE IF d.description.len > MAX_DESCRIPTION_LENGTH THEN "DescriptionTooLong"
  ELSE IF d.github.url \notin {"http", "https"} THEN "GithubNotHttpUrl"
  ELSE IF RepoVerdict(r) # "none" THEN RepoVerdict(r)
  ELSE IF "tags" \in d.keys THEN TagsVerdict(d.tags)
  ELSE "none"

\* ------------------------------------------------------------ thumbnail

\* The thumbnail file: its size in bytes, whether Image.open reads it, and
\* the width and height it then reports.
Sides == {64, 128}
Thumbs ==
  [size : {MAX_IMAGE_BYTES - 1, MAX_IMAGE_BYTES, MAX_IMAGE_BYTES + 1, 21 * 1024},
   decodes : {TRUE}, w : Sides, h : Sides]
  \cup [size : {1, MAX_IMAGE_BYTES, MAX_IMAGE_BYTES + 1},
        decodes : {FALSE}, w : {0}, h : {0}]
NoThumb == [size |-> 0, decodes |-> FALSE, w |-> 0, h |-> 0]

TooLarge_ge(size) == size >= MAX_IMAGE_BYTES
TooLarge(size) == size > MAX_IMAGE_BYTES

\* _validate_thumbnail, given the path's suffix and the file
ValidateThumbnail(suffix, t) ==
  IF Lower(suffix) \notin ALLOWED_IMAGE_EXTS THEN "ThumbnailBadExtension"
  ELSE IF TooLarge(t.size) THEN "ThumbnailTooLarge"
  ELSE IF ~t.decodes THEN "ThumbnailUnreadable"
  ELSE IF t.w # t.h THEN "ThumbnailNotSquare"
  ELSE "none"

\* ----------------------------------------------- PR validator: main()

\* The documents main() is run on: two that pass and one for each way
\* _validate_yaml_bytes or the read of the file can fail first.
GoodDoc ==
  [top |-> "mapping", keys |-> REQUIRED_YAML_KEYS, title |-> Str(1, 1),
   description |-> Str(MAX_DESCRIPTION_LENGTH, MAX_DESCRIPTION_LENGTH),
   github |-> Url("str", 20, 20, "https", FALSE), tags |-> TagsAbsent]
MainDocs ==
  {GoodDoc,
   [GoodDoc EXCEPT !.keys = ALLOWED_YAML_KEYS, !.tags = Tags("list", MAX_TAGS, "ok")],
   [GoodDoc EXCEPT !.keys = ALLOWED_YAML_KEYS, !.tags = Tags("list", MAX_TAGS + 1, "ok")],
   [GoodDoc EXCEPT !.keys = REQUIRED_YAML_KEYS \cup {"author"}],
   [GoodDoc EXCEPT !.keys = {"description", "github"}, !.title = Absent],
   [GoodDoc EXCEPT !.title = Str(2, 0)],
   NoMapping("list"), NoMapping("invalid"), NoMapping("unreadable")}
MainYamlInputs ==
  {<<d, "ok">> : d \in MainDocs} \cup {<<GoodDoc, r>> : r \in Repos}

\* The tree at the head commit agrees with the diff that led to it.
TreeAgrees(chs, files) ==
  \A c \in chs :
    /\ c.status \in {"A", "M", "R100"} => c.path \in files
    /\ c.status = "D" => c.path \notin files
    /\ c.status = "R100" => c.old \notin files

\* Raise the failure, or go on to the next stage of main().
Proceed(verdict, next) ==
  IF verdict # "none"
    THEN v_pc' = "done" /\ v_result' = verdict
    ELSE v_pc' = next /\ v_result' = "none"

\* changes = _get_changed_files(base_sha, head_sha), and the checks on its paths.
GetChangedFiles ==
  /\ v_pc = "diff"
  /\ \E chs \in Diffs :
       /\ changes' = chs
       /\ Proceed(ScopeVerdict(chs), "tree")
  /\ UNCHANGED <<plugin_files, thumbnails, doc, repo, thumb>>
  /\ UNCHANGED notValVars

\* plugin_files = _git_ls_tree_names(head_sha, plugin_root_path), and the loop
\* over the files of the folder.
ListPluginFiles ==
  /\ v_pc = "tree"
  /\ LET root == PluginRoot(changes)
     IN \E files \in SUBSET {root \o r : r \in RelFiles} :
          /\ TreeAgrees(changes, files)
          /\ plugin_files' = files
          /\ thumbnails' = IF FolderVerdict(root, files) = "none"
                             THEN ThumbnailsOf(files) ELSE {}
          /\ Proceed(FolderVerdict(root, files), "yaml")
  /\ UNCHANGED <<changes, doc, repo, thumb>>
  /\ UNCHANGED notValVars

\* plugin_yaml_bytes = _git_show_bytes(...); _validate_yaml_bytes(...)
ReadPluginYaml ==
  /\ v_pc = "yaml"
  /\ \E in \in MainYamlInputs :
       /\ doc' = in[1]
       /\ repo' = in[2]
       /\ Proceed(IF in[1].top = "unreadable" THEN "ReadError"
                  ELSE ValidateYaml(in[1], in[2]),
                  IF thumbnails # {} THEN "thumb" ELSE "deleted")
  /\ UNCHANGED <<changes, plugin_files, thumbnails, thumb>>
  /\ UNCHANGED notValVars

\* if thumbnails: thumb_path = thumbnails[0]; _validate_thumbnail(tmp_path)
ReadThumbnail ==
  /\ v_pc = "thumb"
  /\ \E t \in Thumbs :
       /\ thumb' = t
       /\ LET thumb_path == CHOOSE f \in thumbnails :
                              \A g \in thumbnails : GitRank(f) <= GitRank(g)
          IN Proceed(ValidateThumbnail(Suffix(BaseName(thumb_path)), t), "deleted")
  /\ UNCHANGED <<changes, plugin_files, thumbnails, doc, repo>>
  /\ UNCHANGED notValVars

\* deleted = [p for status, p in changes if status.startswith("D")]
CheckDeleted ==
  /\ v_pc = "deleted"
  /\ v_pc' = "done"
  /\ v_result' = IF \E c \in changes : IsDeletion(c.status)
                   THEN "DeletionNotAllowed" ELSE "ok"
  /\ UNCHANGED <<changes, plugin_files, thumbnails, doc, repo, thumb>>
  /\ UNCHANGED notValVars

\* _validate_yaml_bytes(plugin_yaml_path, content)
ValidateYamlBytes ==
  /\ v_pc = "reader"
  /\ v_pc' = "done"
  /\ v_result' = IF ValidateYaml(doc, repo) = "none" THEN "ok"
                 ELSE ValidateYaml(doc, repo)
  /\ UNCHANGED <<changes, plugin_files, thumbnails, doc, repo, thumb>>
  /\ UNCHANGED notValVars

\* ------------------------------------------------------------ index.json

\* JSON values as Python holds them. A string is the sequence of its parts, a
\* dict the sequence of its (key, value) items in insertion order.
JNull == [t |-> "null", v |-> <<>>, fields |-> <<>>]
JStr(s) == [t |-> "str", v |-> s, fields |-> <<>>]
JNum(n) == [t |-> "num", v |-> <<n>>, fields |-> <<>>]
JDict(items) == [t |-> "dict", v |-> <<>>, fields |-> items]

\* dict.keys(), `k in d`, d.get(k) and d[k] = v on the items of a dict.
Keys(d) == {d[i][1] : i \in DOMAIN d}
Has(d, k) == k \in Keys(d)
Get(d, k) ==
  IF Has(d, k) THEN d[CHOOSE i \in DOMAIN d : d[i][1] = k][2] ELSE JNull
Set(d, k, val) ==
  IF Has(d, k)
    THEN [i \in DOMAIN d |-> IF d[i][1] = k THEN <<k, val>> ELSE d[i]]
    ELSE Append(d, <<k, val>>)

\* sorted() on the keys the model uses: str order, by code point.
KeyOrder == <<"", "README.md", "_r", "a", "b", "custom", "description", "discussion", "github",
              "plugins", "repo", "stars", "stars_updated_at", "thumbnail", "title",
              "version">>
Sorted(keys) == SelectSeq(KeyOrder, LAMBDA k : k \in keys)

\* {k: plugins[k] for k in sorted(plugins.keys())}
SortedDict_asis(d) == d
SortedDict(d) ==
  LET keys == Sorted(Keys(d))
  IN [i \in DOMAIN keys |-> <<keys[i], Get(d, keys[i])>>]

\* The tokens of a JSON text.
Tok(kind, val) == [tok |-> kind, v |-> val]

\* json.dumps(value, sort_keys=...): the text, token by token.
RECURSIVE JsonDumps(_, _), DumpItems(_, _, _)
JsonDumps(value, sort_keys) ==
  IF value.t = "dict"
    THEN <<Tok("{", <<>>)>>
         \o DumpItems(IF sort_keys THEN SortedDict(value.fields) ELSE value.fields,
                      1, sort_keys)
         \o <<Tok("}", <<>>)>>
    ELSE <<Tok(value.t, value.v)>>
DumpItems(items, i, sort_keys) ==
  IF i > Len(items) THEN <<>>
  ELSE <<Tok("key", <<items[i][1]>>)>> \o JsonDumps(items[i][2], sort_keys)
       \o DumpItems(items, i + 1, sort_keys)

\* json.loads(text): [val, nxt], the value read from position p on and the
\* position after it; val.t = "invalid" where the text is no JSON.
Invalid == [t |-> "invalid", v |-> <<>>, fields |-> <<>>]
RECURSIVE ParseValue(_, _), ParseItems(_, _, _)
ParseValue(text, p) ==
  IF p > Len(text) THEN [val |-> Invalid, nxt |-> p]
  ELSE IF text[p].tok = "{" THEN ParseItems(text, p + 1, <<>>)
  ELSE IF text[p].tok \in {"null", "str", "num"}
    THEN [val |-> [t |-> text[p].tok, v |-> text[p].v, fields |-> <<>>], nxt |-> p + 1]
  ELSE [val |-> Invalid, nxt |-> p]
ParseItems(text, p, acc) ==
  IF p > Len(text) THEN [val |-> Invalid, nxt |-> p]
  ELSE IF text[p].tok = "}" THEN [val |-> JDict(acc), nxt |-> p + 1]
  ELSE IF text[p].tok # "key" THEN [val |-> Invalid, nxt |-> p]
  ELSE LET item == ParseValue(text, p + 1)
       IN IF item.val.t = "invalid" THEN item
          ELSE ParseItems(text, item.nxt, Set(acc, text[p].v[1], item.val))
JsonLoads(text) ==
  LET r == ParseValue(text, 1)
  IN IF r.nxt = Len(text) + 1 THEN r.val ELSE Invalid

\* {"version": 1, "plugins": {}}
EmptyIndex == <<<<"version", JNum("1")>>, <<"plugins", JDict(<<>>)>>>>

\* _load_index, once the file is read and parsed to a dict
LoadedIndex_strict(loaded) == IF Has(loaded, "version") THEN loaded ELSE EmptyIndex
LoadedIndex(loaded) ==
  LET with_plugins == IF ~Has(loaded, "plugins") \/ Get(loaded, "plugins").t # "dict"
                        THEN Set(loaded, "plugins", JDict(<<>>)) ELSE loaded
  IN IF ~Has(with_plugins, "version")
       THEN Set(with_plugins, "version", JNum("1")) ELSE with_plugins

\* _save_index of ensure_plugin_discussions.py: data as the call leaves it,
\* and the text it writes.
SavedData(data) ==
  LET plugins == IF Get(data, "plugins").t = "dict"
                   THEN Get(data, "plugins").fields ELSE <<>>
  IN Set(data, "plugins", JDict(SortedDict(plugins)))
SavedText(data) == JsonDumps(JDict(SavedData(data)), TRUE)

\* _save_index of update_index_stars.py
StarsSavedData(data) ==
  IF Get(data, "plugins").t = "dict"
    THEN Set(data, "plugins", JDict(SortedDict(Get(data, "plugins").fields)))
    ELSE data
StarsSavedText(data) == JsonDumps(JDict(StarsSavedData(data)), TRUE)

\* The extensions _thumbnail_rel_path tries, in its order, and f"thumbnail{ext}".
ThumbnailExts == <<".png", ".jpg", ".jpeg", ".webp">>
ThumbnailFile(ext) ==
  CASE ext = ".png" -> "thumbnail.png"
    [] ext = ".jpg" -> "thumbnail.jpg"
    [] ext = ".jpeg" -> "thumbnail.jpeg"
    [] ext = ".webp" -> "thumbnail.webp"

\* _thumbnail_rel_path on a file system that tells cases apart; <<>> is None.
ThumbnailRelPath(plugin_name, fs) ==
  LET plugin_dir == <<"plugins", plugin_name>>
      found == SelectSeq(ThumbnailExts,
                         LAMBDA ext : plugin_dir \o <<ThumbnailFile(ext)>> \in fs)
  IN IF ~(\E f \in fs : Len(f) > 2 /\ SubSeq(f, 1, 2) = plugin_dir) THEN <<>>
     ELSE IF found = <<>> THEN <<>>
     ELSE plugin_dir \o <<ThumbnailFile(found[1])>>

\* repo_full.split("/", 1) over the values GITHUB_REPOSITORY takes here
SplitRepository(repo_full) == IF repo_full = "o/r" THEN <<"o", "r">> ELSE <<>>

\* _repo_file_url raises: GITHUB_REPOSITORY is unset or holds no "/"
RepoFileUrlFails(e) == e.repository = "" \/ SplitRepository(e.repository) = <<>>

\* _repo_file_url
RepoFileUrl(rel_path, e) ==
  <<"https://raw.githubusercontent.com">> \o SplitRepository(e.repository)
  \o <<IF e.ref_name = "" THEN "main" ELSE e.ref_name>> \o rel_path

\* meta.get(k) if isinstance(meta.get(k), str) else None
StrOrNone(val) == IF val.t = "str" THEN val ELSE JNull

\* _index_plugin_entry
IndexPluginEntry(plugin_name, meta, fs, e) ==
  LET thumb_rel == ThumbnailRelPath(plugin_name, fs)
  IN <<<<"title", StrOrNone(Get(meta, "title"))>>,
       <<"description", StrOrNone(Get(meta, "description"))>>,
       <<"github", StrOrNone(Get(meta, "github"))>>,
       <<"thumbnail", IF thumb_rel # <<>> THEN JStr(RepoFileUrl(thumb_rel, e))
                      ELSE JNull>>>>

\* existing if isinstance(existing, dict) else {}
ExistingDict_fresh(existing) == <<>>
ExistingDict(existing) == IF existing.t = "dict" THEN existing.fields ELSE <<>>

\* entry = dict(existing_dict), then the five assignments
MergedEntry_setdefault(existing_dict, generated, discussion_url) ==
  LET keep(d, k, val) == IF Has(d, k) THEN d ELSE Set(d, k, val)
  IN Set(keep(keep(keep(keep(existing_dict,
       "title", Get(generated, "title")),
       "description", Get(generated, "description")),
       "github", Get(generated, "github")),
       "thumbnail", Get(generated, "thumbnail")),
       "discussion", discussion_url)
MergedEntry(existing_dict, generated, discussion_url) ==
  Set(Set(Set(Set(Set(existing_dict,
    "title", Get(generated, "title")),
    "description", Get(generated, "description")),
    "github", Get(generated, "github")),
    "thumbnail", Get(generated, "thumbnail")),
    "discussion", discussion_url)

\* _upsert_index_plugin, where _repo_file_url does not raise: the index after
Upserted(ix, plugin_name, meta, discussion_url, fs, e) ==
  LET index1 == IF Get(ix, "plugins").t # "dict"
                  THEN Set(ix, "plugins", JDict(<<>>)) ELSE ix
      plugins == Get(index1, "plugins").fields
      entry == MergedEntry(ExistingDict(Get(plugins, plugin_name)),
                           IndexPluginEntry(plugin_name, meta, fs, e),
                           discussion_url)
  IN Set(index1, "plugins", JDict(Set(plugins, plugin_name, JDict(entry))))

\* ------------------------------------------- index.json: what the runs meet

PluginNames == {"a", "b"}

Path(plugin_name, file) == <<"plugins", plugin_name, file>>

\* The working trees.
DeclaredTree == {Path("a", "plugin.yaml"), Path("b", "plugin.yaml")}
Trees ==
  {DeclaredTree,
   DeclaredTree \cup {Path("a", "thumbnail.png"), Path("a", "thumbnail.webp"),
                      Path("b", "thumbnail.jpeg")},
   DeclaredTree \cup {Path("a", "Thumbnail.JPG"), Path("b", "thumbnail.webp")},
   {Path("a", "plugin.yaml"), Path("a", "thumbnail.jpg")}}

\* GITHUB_REPOSITORY and GITHUB_REF_NAME
Envs == {[repository |-> "", ref_name |-> ""],
         [repository |-> "o/r", ref_name |-> ""],
         [repository |-> "o/r", ref_name |-> "dev"]}

\* What _read_plugin_yaml hands to the upsert: two records that pass the
\* validator and a mapping that would not.
Metas ==
  {<<<<"title", JStr(<<"T1">>)>>, <<"description", JStr(<<"D1">>)>>,
     <<"github", JStr(<<"https://github.com/o/p1">>)>>>>,
   <<<<"github", JStr(<<"https://github.com/o/p2">>)>>, <<"title", JStr(<<"T2">>)>>,
     <<"description", JStr(<<"D2">>)>>, <<"tags", JStr(<<"t">>)>>>>,
   <<<<"title", JNum("5")>>, <<"github", JStr(<<"https://github.com/o/p1">>)>>>>}

\* discussion_url
DiscussionUrls == {JNull, JStr(<<"https://github.com/o/r/discussions/1">>)}

\* Entries an index.json may hold before a run.
FullEntry ==
  <<<<"title", JStr(<<"T0">>)>>, <<"description", JStr(<<"D0">>)>>,
    <<"github", JStr(<<"https://github.com/o/p0">>)>>,
    <<"thumbnail", JStr(<<"https://example.org/old.png">>)>>,
    <<"discussion", JStr(<<"https://github.com/o/r/discussions/0">>)>>,
    <<"stars", JNum("5")>>, <<"stars_updated_at", JStr(<<"2026-01-01T00:00:00Z">>)>>>>
OddEntry ==
  <<<<"stars", JNum("7")>>, <<"custom", JStr(<<"keep">>)>>,
    <<"title", JStr(<<"T0">>)>>, <<"thumbnail", JNull>>>>
PriorPlugins ==
  {<<>>,
   <<<<"a", JDict(FullEntry)>>>>,
   <<<<"b", JDict(OddEntry)>>, <<"a", JDict(FullEntry)>>>>,
   <<<<"a", JDict(OddEntry)>>, <<"b", JDict(FullEntry)>>>>,
   <<<<"a", JStr(<<"junk">>)>>, <<"b", JDict(<<>>)>>>>}

\* The texts index.json may hold before a run.
PriorTexts ==
  {JsonDumps(JDict(<<<<"version", JNum("1")>>, <<"plugins", JDict(p)>>>>), FALSE) :
     p \in PriorPlugins}
  \cup {JsonDumps(JDict(<<<<"plugins", JDict(<<<<"b", JDict(FullEntry)>>>>)>>>>), FALSE),
        JsonDumps(JDict(<<<<"version", JNum("2")>>, <<"plugins", JStr(<<"x">>)>>>>), FALSE),
        JsonDumps(JStr(<<"x">>), FALSE),
        <<Tok("{", <<>>)>>}

NoFile == [exists |-> FALSE, text |-> <<>>]
File(text) == [exists |-> TRUE, text |-> text]
Disks == {NoFile} \cup {File(text) : text \in PriorTexts}

\* index = _load_index()
LoadIndex ==
  /\ ix_pc \in {"load", "saved"}
  /\ LET loaded == JsonLoads(disk.text)
         next == IF ix_pc = "load" THEN "ready" ELSE "reloaded"
     IN IF ~disk.exists THEN index' = EmptyIndex /\ ix_pc' = next
        ELSE IF loaded.t # "dict" THEN index' = index /\ ix_pc' = "failed"
        ELSE index' = LoadedIndex(loaded.fields) /\ ix_pc' = next
  /\ h_load' = IF disk.exists /\ JsonLoads(disk.text).t # "dict" THEN "failed" ELSE "ok"
  /\ reads' = IF disk.exists THEN reads + 1 ELSE reads
  /\ h_loaded' = index'
  /\ UNCHANGED <<disk, worktree, env, h_name, h_meta, h_url, h_prior, writes>>
  /\ UNCHANGED notIndexVars

\* The names main() has yet to reach in `for plugin_name in plugin_names`, a
\* sorted list without duplicates, after the upsert of name last.
NamesAfter(last) ==
  IF last = "" THEN PluginNames
  ELSE {n \in PluginNames :
          \E i, j \in DOMAIN KeyOrder : KeyOrder[i] = last /\ KeyOrder[j] = n /\ i < j}

\* _upsert_index_plugin(index, plugin_name, meta, discussion_url)
UpsertIndexPlugin ==
  /\ ix_pc \in {"ready", "dirty"}
  /\ \E plugin_name \in NamesAfter(h_name), meta \in Metas,
        discussion_url \in DiscussionUrls :
       LET index1 == IF Get(index, "plugins").t # "dict"
                       THEN Set(index, "plugins", JDict(<<>>)) ELSE index
           raises == ThumbnailRelPath(plugin_name, worktree) # <<>> /\ RepoFileUrlFails(env)
       IN /\ h_name' = plugin_name
          /\ h_meta' = meta
          /\ h_url' = discussion_url
          /\ h_prior' = index
          /\ IF raises
               THEN index' = index1 /\ ix_pc' = "failed"
               ELSE /\ index' = Upserted(index, plugin_name, meta, discussion_url,
                                          worktree, env)
                    /\ ix_pc' = "dirty"
  /\ UNCHANGED <<disk, worktree, env, reads, writes, h_load, h_loaded>>
  /\ UNCHANGED notIndexVars

\* _save_index(index)
SaveIndex ==
  /\ ix_pc \in {"ready", "dirty"}
  /\ index' = SavedData(index)
  /\ disk' = File(SavedText(index))
  /\ ix_pc' = "saved"
  /\ h_prior' = <<>>
  /\ writes' = writes + 1
  /\ UNCHANGED <<worktree, env, h_name, h_meta, h_url, reads, h_load, h_loaded>>
  /\ UNCHANGED notIndexVars

\* ------------------------------------------------ update_index_stars.py

\* _load_index of update_index_stars.py: the dict it returns, <<>> where it
\* fails (no file, no JSON, no object, no plugins object).
StarsLoadFails(d) ==
  \/ ~d.exists
  \/ JsonLoads(d.text).t # "dict"
  \/ Get(JsonLoads(d.text).fields, "plugins").t # "dict"
StarsLoadedIndex(d) == IF StarsLoadFails(d) THEN <<>> ELSE JsonLoads(d.text).fields

\* One round of the loop of _apply_updates: the entry after the update upd.
AppliedEntry_replace(entry, upd) == upd
AppliedEntry(entry, upd) ==
  LET stars == Get(upd, "stars")
      stars_updated_at == Get(upd, "stars_updated_at")
      with_stars == IF stars.t = "num" THEN Set(entry, "stars", stars) ELSE entry
  IN IF stars_updated_at.t = "str"
       THEN Set(with_stars, "stars_updated_at", stars_updated_at) ELSE with_stars

\* for plugin_name, upd in loaded_updates.items(), from item i on
RECURSIVE AppliedUpdates(_, _, _)
AppliedUpdates(plugins, items, i) ==
  IF i > Len(items) THEN plugins
  ELSE LET plugin_name == items[i][1]
           upd == items[i][2]
           entry == Get(plugins, plugin_name)
       IN IF upd.t # "dict" \/ entry.t # "dict"
            THEN AppliedUpdates(plugins, items, i + 1)
            ELSE AppliedUpdates(
                   Set(plugins, plugin_name, JDict(AppliedEntry(entry.fields, upd.fields))),
                   items, i + 1)

\* The updates files the scan pass, or anyone else, may have left.
StarsUpdate(stars, at) == JDict(<<<<"stars", stars>>, <<"stars_updated_at", at>>,
                                  <<"repo", JStr(<<"o/p0">>)>>>>)
UpdatesTexts ==
  {JsonDumps(JDict(u), FALSE) :
     u \in {<<>>,
            <<<<"a", StarsUpdate(JNum("9"), JStr(<<"2026-02-02T00:00:00Z">>))>>>>,
            <<<<"a", StarsUpdate(JNum("5"), JStr(<<"2026-01-01T00:00:00Z">>))>>>>,
            <<<<"b", StarsUpdate(JStr(<<"many">>), JNull)>>,
              <<"a", StarsUpdate(JNum("9"), JNull)>>>>,
            <<<<"custom", StarsUpdate(JNum("1"), JStr(<<"2026-02-02T00:00:00Z">>))>>,
              <<"b", JStr(<<"junk">>)>>>>}}
  \cup {JsonDumps(JStr(<<"x">>), FALSE)}
UpdatesFiles == {NoFile} \cup {File(text) : text \in UpdatesTexts}

\* index = _load_index()
StarsLoadIndex ==
  /\ st_pc = "load"
  /\ IF StarsLoadFails(disk)
       THEN index' = index /\ st_pc' = "failed" /\ h_load' = "failed"
       ELSE index' = StarsLoadedIndex(disk) /\ st_pc' = "loaded" /\ h_load' = "ok"
  /\ reads' = IF disk.exists THEN reads + 1 ELSE reads
  /\ h_loaded' = index'
  /\ UNCHANGED <<ix_pc, disk, worktree, env, h_name, h_meta, h_url, h_prior, writes>>
  /\ UNCHANGED <<updates, scanVars>>
  /\ UNCHANGED notStarsVars

\* The rest of _apply_updates: the updates file, the loop, _save_index(index).
ApplyUpdates ==
  /\ st_pc = "loaded"
  /\ LET loaded_updates == JsonLoads(updates.text)
     IN IF ~updates.exists \/ loaded_updates.t # "dict"
          THEN /\ st_pc' = "failed"
               /\ UNCHANGED <<index, disk, writes>>
          ELSE LET applied == Set(index, "plugins",
                                  JDict(AppliedUpdates(Get(index, "plugins").fields,
                                                       loaded_updates.fields, 1)))
               IN /\ index' = StarsSavedData(applied)
                  /\ disk' = File(StarsSavedText(applied))
                  /\ writes' = writes + 1
                  /\ st_pc' = "done"
  /\ UNCHANGED <<ix_pc, worktree, env, h_name, h_meta, h_url, h_prior, reads, h_load,
                 h_loaded>>
  /\ UNCHANGED <<updates, scanVars>>
  /\ UNCHANGED notStarsVars

\* ------------------------------------------- ensure_plugin_discussions.py

DEFAULT_MAX_PLUGINS == 100

\* _plugin_exists
PluginExists(plugin_name, fs) == Path(plugin_name, "plugin.yaml") \in fs

\* The del of _prune_removed_plugins and of main(): d without key k.
Del_keep(d, k) == d
Del(d, k) == SelectSeq(d, LAMBDA item : item[1] # k)

\* main() prunes under RUN_ALL only.
PruneNow_always(all) == TRUE
PruneNow(all) == all

\* _prune_removed_plugins: the keys its loop deletes. It passes over the
\* empty key and the keys that start with "_".
Prunable_any(plugin_name, fs) ==
  ~StartsWithUnderscore(plugin_name) /\ ~PluginExists(plugin_name, fs)
Prunable(plugin_name, fs) ==
  /\ plugin_name # ""
  /\ ~StartsWithUnderscore(plugin_name)
  /\ ~PluginExists(plugin_name, fs)

\* _prune_removed_plugins: the index after
RECURSIVE PrunedPlugins(_, _, _)
PrunedPlugins(plugins, names, fs) ==
  IF names = <<>> THEN plugins
  ELSE PrunedPlugins(IF Prunable(Head(names), fs)
                       THEN Del(plugins, Head(names)) ELSE plugins,
                     Tail(names), fs)
PruneRemovedPlugins(ix, fs) ==
  LET plugins == Get(ix, "plugins")
  IN IF plugins.t # "dict" THEN ix
     ELSE Set(ix, "plugins",
              JDict(PrunedPlugins(plugins.fields,
                                  [i \in DOMAIN plugins.fields |-> plugins.fields[i][1]], fs)))

\* _prune_removed_plugins: the count it returns
RECURSIVE RemovedCount(_, _)
RemovedCount(names, fs) ==
  IF names = <<>> THEN 0
  ELSE (IF Prunable(Head(names), fs) THEN 1 ELSE 0) + RemovedCount(Tail(names), fs)
PruneReturns(ix, fs) ==
  LET plugins == Get(ix, "plugins")
  IN IF plugins.t # "dict" THEN 0
     ELSE RemovedCount([i \in DOMAIN plugins.fields |-> plugins.fields[i][1]], fs)

\* _detected_plugin_names, from the paths git lists
DetectedPluginNames(paths) ==
  LET names == {p[2] : p \in {q \in paths : Len(q) >= 2 /\ q[1] = "plugins"}}
  IN Sorted({n \in names : n # "" /\ ~StartsWithUnderscore(n)})

\* str.strip() on a string given by its characters.
RECURSIVE LStrip(_)
LStrip(s) == IF s # <<>> /\ Head(s) = " " THEN LStrip(Tail(s)) ELSE s
RECURSIVE RStrip(_)
RStrip(s) ==
  IF s # <<>> /\ s[Len(s)] = " " THEN RStrip(SubSeq(s, 1, Len(s) - 1)) ELSE s
Strip(s) == RStrip(LStrip(s))

\* _is_zero_sha; None stands for a BEFORE_SHA that is not set.
None == <<"None">>
IsZeroSha(sha) ==
  IF sha = None \/ sha = <<>> THEN TRUE
  ELSE Strip(sha) # <<>> /\ {Strip(sha)[i] : i \in DOMAIN Strip(sha)} = {"0"}

\* BEFORE_SHA: not set, empty, zeros, zeros in blanks, a commit, a blank.
Shas == {None, <<>>, <<"0", "0">>, <<" ", "0", " ">>, <<"c", "0">>, <<" ">>}
IsCommit(sha) == sha = <<"c", "0">>

\* The files of the repository, by their path parts.
RepoPaths ==
  {<<"README.md">>, <<"plugins", "README.md">>, Path("_r", "plugin.yaml"),
   Path("a", "plugin.yaml"), Path("b", "thumbnail.png")}

\* plugin_names = _detected_plugin_names(before, after, run_all), with the
\* answers of `git ls-tree -r --name-only after -- plugins` and of
\* `git diff --name-only before..after`; git fails on a before that is no
\* commit.
DetectPluginNames ==
  /\ fn_pc = "call"
  /\ LET all == fn_args.run_all \/ IsZeroSha(fn_args.before)
     IN fn_result' =
          IF ~all /\ ~IsCommit(fn_args.before) THEN [ok |-> FALSE, names |-> <<>>]
          ELSE [ok |-> TRUE,
                names |-> DetectedPluginNames(IF all THEN fn_args.ls_tree
                                              ELSE fn_args.diff)]
  /\ fn_pc' = "returned"
  /\ UNCHANGED fn_args
  /\ UNCHANGED notFunVars

\* What `git diff --name-only before..after` may list.
DiffNames ==
  {{Path("a", "plugin.yaml")},
   {Path("b", "thumbnail.png"), Path("a", "plugin.yaml")},
   {<<"README.md">>, Path("_r", "plugin.yaml")}}

\* The working trees of the runs: a and b declared; b without its
\* plugin.yaml; no folder but a reserved one.
SyncTrees ==
  {DeclaredTree \cup {Path("a", "thumbnail.png")},
   {Path("a", "plugin.yaml"), Path("b", "thumbnail.png")},
   {Path("_r", "plugin.yaml")}}

\* The plugins objects _prune_removed_plugins may meet: up to three of the
\* keys "", "_r", "a", "b", in any order.
PruneKeys == {"", "_r", "a", "b"}
PrunePlugins ==
  {[i \in DOMAIN ks |-> <<ks[i], JDict(IF ks[i] = "a" THEN FullEntry ELSE OddEntry)>>] :
     ks \in {q \in UNION {[1..n -> PruneKeys] : n \in 0..3} :
               \A i, j \in DOMAIN q : i # j => q[i] # q[j]}}

\* The working trees it may meet: those of the runs.
PruneTrees == SyncTrees

\* removed = _prune_removed_plugins(index)
Prune ==
  /\ fn_pc = "call"
  /\ fn_result' = [index |-> PruneRemovedPlugins(fn_args.index, fn_args.fs),
                   removed |-> PruneReturns(fn_args.index, fn_args.fs)]
  /\ fn_pc' = "returned"
  /\ UNCHANGED fn_args
  /\ UNCHANGED notFunVars

\* _read_plugin_yaml on the plugin.yaml of a plugin.
MetaOf(plugin_name) ==
  IF plugin_name = "a"
    THEN <<<<"title", JStr(<<"T1">>)>>, <<"description", JStr(<<"D1">>)>>,
           <<"github", JStr(<<"https://github.com/o/p1">>)>>>>
    ELSE <<<<"github", JStr(<<"https://github.com/o/p2">>)>>, <<"title", JStr(<<"T2">>)>>,
           <<"description", JStr(<<"D2">>)>>, <<"tags", JStr(<<"t">>)>>>>

\* _discussion_title: f"Plugin: {plugin_name}", word by word.
DiscussionTitle(plugin_name) == <<"Plugin:", plugin_name>>

\* A discussion as GitHub holds it. marker is the plugin name of the
\* PLUGIN_MARKER_PREFIX line of its body, "" where the body has no such line.
Discussion(marker, title, is_closed) ==
  [marker |-> marker, title |-> title, closed |-> is_closed]

\* _discussion_body and _create_discussion: the discussion GitHub adds
CreatedDiscussion_untitled(plugin_name) == Discussion("", <<"Plugin:">>, FALSE)
CreatedDiscussion(plugin_name) ==
  Discussion(plugin_name, DiscussionTitle(plugin_name), FALSE)

\* The url GitHub gives the discussion of number id.
IdStr == <<"1", "2", "3", "4", "5", "6">>
DiscussionUrl(id) == JStr(<<"https://github.com/o/r/discussions/", IdStr[id]>>)

\* GitHub's search for `in:body "<marker of plugin_name>"`: the numbers of the
\* discussions whose body holds that line.
BodyHits(ds, plugin_name) == {i \in DOMAIN ds : ds[i].marker = plugin_name}

\* GitHub's search for `in:title "<phrase>"`: the numbers of the discussions
\* whose title holds the words of the phrase in a row.
TitleHits(ds, phrase) ==
  {i \in DOMAIN ds :
     \E k \in 0..(Len(ds[i].title) - Len(phrase)) :
       SubSeq(ds[i].title, k + 1, k + Len(phrase)) = phrase}

\* _search_discussion: the first node of the answer, 0 for None.
FirstHit_none(hits, rank, ds, expected_title) == 0
FirstHit(hits, rank, ds, expected_title) ==
  IF hits = {} THEN 0
  ELSE IF rank = "oldest" THEN CHOOSE i \in hits : \A j \in hits : i <= j
  ELSE CHOOSE i \in hits : \A j \in hits : i >= j

\* _find_existing_discussion: the number of the discussion, 0 for None.
FindExistingDiscussion(ds, rank, plugin_name) ==
  LET expected_title == DiscussionTitle(plugin_name)
      by_marker == FirstHit(BodyHits(ds, plugin_name), rank, ds, expected_title)
      by_title == FirstHit(TitleHits(ds, expected_title), rank, ds, expected_title)
  IN IF by_marker # 0 THEN by_marker
     ELSE IF by_title # 0 /\ ds[by_title].title = expected_title THEN by_title
     ELSE 0

\* The discussions GitHub may hold before the first run: none; the thread of
\* plugin a from before the marker existed, closed; that thread, open, next to
\* an older one on plugin "a x"; the threads earlier runs made for a and b.
InitialDiscussions ==
  {<<>>,
   <<Discussion("", DiscussionTitle("a"), TRUE)>>,
   <<Discussion("", <<"Plugin:", "a", "x">>, FALSE),
     Discussion("", DiscussionTitle("a"), FALSE)>>,
   <<Discussion("a", DiscussionTitle("a"), TRUE),
     Discussion("b", DiscussionTitle("b"), FALSE)>>}

\* index.json before the first run.
SyncDisks ==
  {NoFile,
   File(JsonDumps(JDict(<<<<"version", JNum("1")>>,
                          <<"plugins", JDict(<<<<"b", JDict(OddEntry)>>,
                                               <<"a", JDict(FullEntry)>>>>)>>>>), FALSE)),
   File(JsonDumps(JDict(<<<<"plugins", JStr(<<"x">>)>>>>), FALSE)),
   File(<<Tok("{", <<>>)>>)}

\* entry.get("discussion") of every plugin of an index; "absent" where the
\* index has no entry of that name.
DiscussionFields(ix) ==
  [n \in PluginNames |->
     LET plugins == Get(ix, "plugins")
         entry == IF plugins.t = "dict" THEN Get(plugins.fields, n) ELSE JNull
     IN IF plugins.t # "dict" \/ ~Has(plugins.fields, n) THEN "absent"
        ELSE IF entry.t = "dict" THEN Get(entry.fields, "discussion") ELSE entry]

\* len(plugin_names) > max_plugins
ExceedsCeiling_ge(n, ceiling) == n >= ceiling
ExceedsCeiling(n, ceiling) == n > ceiling

\* The start of main(): the environment, the change set, its ceiling.
Detect ==
  /\ sy_pc = "start"
  /\ \E mode \in {"all", "first_push", "diff"}, diff \in DiffNames,
        ceiling \in {1, DEFAULT_MAX_PLUGINS} :
       LET paths == IF mode = "diff" THEN diff ELSE worktree
           names == DetectedPluginNames(paths)
       IN /\ run_all' = (mode = "all")
          /\ plugin_names' = names
          /\ max_plugins' = ceiling
          /\ repeats' = /\ h_prev.ok
                        /\ h_prev.same_tree
                        /\ h_prev.names = names
                        /\ h_prev.run_all = (mode = "all")
          /\ sy_pc' = IF env.repository = "" \/ SplitRepository(env.repository) = <<>>
                        THEN "failed"
                      ELSE IF names = <<>> THEN "done"
                      ELSE IF ExceedsCeiling(Len(names), ceiling) THEN "failed"
                      ELSE "load"
  /\ UNCHANGED <<pos, index_before, discussions, ranking, h_prev,
                 h_created, h_found, h_reopened, h_closed0, h_lookup,
                 h_searched>>
  /\ UNCHANGED indexVars
  /\ UNCHANGED notSyncVars

\* index = _load_index(), index_before, and the pruning of a full run
SyncLoadIndex ==
  /\ sy_pc = "load"
  /\ LET loaded == JsonLoads(disk.text)
         ix == IF ~disk.exists THEN EmptyIndex ELSE LoadedIndex(loaded.fields)
     IN IF disk.exists /\ loaded.t # "dict"
          THEN /\ sy_pc' = "failed"
               /\ h_load' = "failed"
               /\ UNCHANGED <<index, index_before, h_loaded>>
          ELSE /\ sy_pc' = "setup"
               /\ h_load' = "ok"
               /\ index_before' = JsonDumps(JDict(ix), TRUE)
               /\ h_loaded' = ix
               /\ index' = IF PruneNow(run_all) THEN PruneRemovedPlugins(ix, worktree)
                           ELSE ix
  /\ reads' = IF disk.exists THEN reads + 1 ELSE reads
  /\ UNCHANGED <<ix_pc, disk, worktree, env, h_name, h_meta, h_url, h_prior, writes>>
  /\ UNCHANGED <<run_all, plugin_names, pos, discussions, ranking, repeats, max_plugins,
                 h_prev,
                 h_created, h_found, h_reopened, h_closed0, h_lookup,
                 h_searched>>
  /\ UNCHANGED notSyncVars

\* repo_id, category_id = _get_repo_and_category(owner, repo)
GetRepoAndCategory ==
  /\ sy_pc = "setup"
  /\ \E net \in {"ok", "failed"} :
       sy_pc' = IF net = "ok" THEN "loop" ELSE "failed"
  /\ pos' = 1
  /\ UNCHANGED <<run_all, plugin_names, index_before, discussions, ranking, repeats,
                 max_plugins,
                 h_prev, h_created, h_found, h_reopened, h_closed0, h_lookup,
                 h_searched>>
  /\ UNCHANGED indexVars
  /\ UNCHANGED notSyncVars

\* isinstance(disc_id, str) and closed is True
NeedsReopen_never(existing) == FALSE
NeedsReopen(existing) == existing.closed

\* One round of `for plugin_name in plugin_names`. net tells what lets the
\* round down: nothing, the plugin.yaml (_read_plugin_yaml fails), a search,
\* the mutation (that then has no effect), or a reopenDiscussion answered
\* with closed still true.
SyncPlugin ==
  /\ sy_pc = "loop"
  /\ pos <= Len(plugin_names)
  /\ LET plugin_name == plugin_names[pos]
         plugins == Get(index, "plugins")
         existing == FindExistingDiscussion(discussions, ranking, plugin_name)
         created == Len(discussions) + 1
         found_closed == IF existing = 0 THEN FALSE
                         ELSE NeedsReopen(discussions[existing])
     IN IF ~PluginExists(plugin_name, worktree)
          THEN /\ index' = IF plugins.t = "dict" /\ Has(plugins.fields, plugin_name)
                             THEN Set(index, "plugins",
                                      JDict(Del(plugins.fields, plugin_name)))
                             ELSE index
               /\ sy_pc' = "loop"
               /\ pos' = pos + 1
               /\ UNCHANGED <<discussions, h_created, h_found, h_reopened, h_lookup,
                              h_searched>>
          ELSE \E net \in {"ok", "yaml_failed", "search_failed", "mutation_failed",
                           "still_closed"} :
            /\ net = "mutation_failed" => (IF existing = 0 THEN TRUE ELSE found_closed)
            /\ net = "still_closed" => found_closed
            /\ h_searched' = IF net = "yaml_failed" THEN h_searched
                             ELSE h_searched \cup {plugin_name}
            /\ IF net \in {"yaml_failed", "search_failed"}
                 THEN /\ sy_pc' = "failed"
                      /\ UNCHANGED <<index, pos, discussions, h_created, h_found,
                                     h_reopened, h_lookup>>
                 ELSE
                   /\ h_lookup' = [name |-> plugin_name, found |-> existing,
                                   n |-> Len(discussions)]
                   /\ IF existing # 0
                        THEN /\ h_found' = h_found \cup
                                  {[id |-> existing, closed |-> found_closed]}
                             /\ h_reopened' = IF found_closed
                                                THEN h_reopened \cup {existing}
                                                ELSE h_reopened
                             /\ discussions' =
                                  IF found_closed /\ net = "ok"
                                    THEN [discussions EXCEPT ![existing].closed = FALSE]
                                    ELSE discussions
                             /\ UNCHANGED h_created
                        ELSE /\ discussions' = IF net = "ok"
                                                 THEN Append(discussions,
                                                             CreatedDiscussion(plugin_name))
                                                 ELSE discussions
                             /\ h_created' = IF net = "ok" THEN h_created \cup {created}
                                             ELSE h_created
                             /\ UNCHANGED <<h_found, h_reopened>>
                   /\ IF net # "ok"
                        THEN sy_pc' = "failed" /\ UNCHANGED <<index, pos>>
                        ELSE /\ index' = Upserted(index, plugin_name, MetaOf(plugin_name),
                                                  DiscussionUrl(IF existing # 0 THEN existing
                                                                ELSE created),
                                                  worktree, env)
                             /\ sy_pc' = "loop"
                             /\ pos' = pos + 1
  /\ UNCHANGED <<ix_pc, disk, worktree, env, h_name, h_meta, h_url, h_prior,
                 reads, writes, h_load, h_loaded>>
  /\ UNCHANGED <<run_all, plugin_names, index_before, ranking, repeats, max_plugins,
                 h_prev,
                 h_closed0>>
  /\ UNCHANGED notSyncVars

\* The end of main(): index_after, and _save_index if it differs.
SaveIfChanged_always ==
  /\ sy_pc = "loop"
  /\ pos > Len(plugin_names)
  /\ index' = SavedData(index)
  /\ disk' = File(SavedText(index))
  /\ writes' = writes + 1
  /\ sy_pc' = "done"
  /\ UNCHANGED <<ix_pc, worktree, env, h_name, h_meta, h_url, h_prior, reads, h_load,
                 h_loaded>>
  /\ UNCHANGED <<run_all, plugin_names, pos, index_before, discussions, ranking,
                 repeats, max_plugins, h_prev, h_created, h_found, h_reopened,
                 h_closed0, h_lookup,
                 h_searched>>
  /\ UNCHANGED notSyncVars
SaveIfChanged ==
  /\ sy_pc = "loop"
  /\ pos > Len(plugin_names)
  /\ LET index_after == JsonDumps(JDict(index), TRUE)
     IN IF index_after # index_before
          THEN /\ index' = SavedData(index)
               /\ disk' = File(SavedText(index))
               /\ writes' = writes + 1
          ELSE UNCHANGED <<index, disk, writes>>
  /\ sy_pc' = "done"
  /\ UNCHANGED <<ix_pc, worktree, env, h_name, h_meta, h_url, h_prior, reads, h_load,
                 h_loaded>>
  /\ UNCHANGED <<run_all, plugin_names, pos, index_before, discussions, ranking,
                 repeats, max_plugins, h_prev, h_created, h_found, h_reopened,
                 h_closed0, h_lookup,
                 h_searched>>
  /\ UNCHANGED notSyncVars

\* The discussions the run created or sent a reopen for, each with the name
\* of the plugin whose round it was.
Touched ==
  {[id |-> i, name |-> n] : i \in h_created \cup h_reopened, n \in PluginNames} \cap
  {t \in [id : DOMAIN discussions, name : PluginNames] :
     \/ discussions[t.id].marker = t.name
     \/ discussions[t.id].marker = "" /\ discussions[t.id].title = DiscussionTitle(t.name)}

\* The workflow starts the script again, as a fresh process, on a working
\* tree that plugins may have left or joined.
NextRun ==
  /\ sy_pc \in {"done", "failed"}
  /\ h_prev.n + 1 < MaxRuns
  /\ \E tree \in SyncTrees :
       /\ worktree' = tree
       /\ h_prev' = [ok |-> sy_pc = "done", names |-> plugin_names,
                     run_all |-> run_all, same_tree |-> tree = worktree,
                     fields |-> DiscussionFields(index),
                     touched |-> Touched, disk |-> disk, n |-> h_prev.n + 1]
  /\ sy_pc' = "start"
  /\ index' = EmptyIndex
  /\ index_before' = <<>>
  /\ plugin_names' = <<>>
  /\ run_all' = FALSE
  /\ pos' = 0
  /\ repeats' = FALSE
  /\ max_plugins' = DEFAULT_MAX_PLUGINS
  /\ reads' = 0
  /\ writes' = 0
  /\ h_load' = "none"
  /\ h_loaded' = EmptyIndex
  /\ h_created' = {}
  /\ h_found' = {}
  /\ h_reopened' = {}
  /\ h_lookup' = [name |-> "", found |-> 0, n |-> 0]
  /\ h_searched' = {}
  /\ UNCHANGED <<ix_pc, disk, env, h_name, h_meta, h_url, h_prior>>
  /\ UNCHANGED <<discussions, ranking, h_closed0>>
  /\ UNCHANGED notSyncVars

\* --------------------------------- update_index_stars.py: the scan pass

DEFAULT_CHUNK_SIZE == 50

\* STARS_CHUNK_SIZE as main() reads it with int().
ChunkSizes == {-1, 0, 1, 2, DEFAULT_CHUNK_SIZE}

\* _parse_repo_url(url) on the urls the entries carry: <<owner, repo>>, with
\* `.git` and a closing `/` dropped, and None where the pattern does not match.
ParseRepoUrl(url) ==
  CASE url = <<"https://github.com/o/p0">> -> <<"o", "p0">>
    [] url = <<"https://github.com/o/p1">> -> <<"o", "p1">>
    [] url = <<"https://github.com/o/p2">> -> <<"o", "p2">>
    [] url = <<"https://github.com/o/p0.git">> -> <<"o", "p0">>
    [] url = <<"http://github.com/o/p1/">> -> <<"o", "p1">>
    [] OTHER -> None

\* for plugin_name, entry in plugins.items(): the items list, from item i on
RECURSIVE ScanItems(_, _)
ScanItems(plugins, i) ==
  IF i > Len(plugins) THEN <<>>
  ELSE LET plugin_name == plugins[i][1]
           entry == plugins[i][2]
           gh == IF entry.t = "dict" THEN Get(entry.fields, "github") ELSE JNull
           parsed == IF gh.t = "str" THEN ParseRepoUrl(gh.v) ELSE None
       IN IF entry.t # "dict" \/ gh.t # "str" \/ parsed = None
            THEN ScanItems(plugins, i + 1)
            ELSE <<<<plugin_name, parsed[1], parsed[2]>>>> \o ScanItems(plugins, i + 1)

\* _chunks(items, n) = [items[i : i + n] for i in range(0, len(items), n)];
\* range() raises ValueError for n = 0 and is empty for n < 0.
ChunksRaises(n) == n = 0
Chunks(xs, n) ==
  IF n <= 0 THEN <<>>
  ELSE [k \in 1..((Len(xs) + n - 1) \div n) |->
          SubSeq(xs, (k - 1) * n + 1, IF k * n < Len(xs) THEN k * n ELSE Len(xs))]

\* f"r{i}"
Alias(i) == <<"r0", "r1", "r2">>[i + 1]

\* The blocks of the query of one batch: alias, owner, name.
Query(b) == [i \in DOMAIN b |-> <<Alias(i - 1), b[i][2], b[i][3]>>]

\* GitHub: the stargazerCount of the repositories it shows; o/p2 is one it
\* does not show.
StargazerCount(owner, name) ==
  CASE owner = "o" /\ name = "p0" -> JNum("10")
    [] owner = "o" /\ name = "p1" -> JNum("11")
    [] OTHER -> JNull

\* GitHub: the data of the answer to a query, keyed by the aliases of its blocks.
GitHubData(query) ==
  [i \in DOMAIN query |->
     <<query[i][1],
       IF StargazerCount(query[i][2], query[i][3]) = JNull THEN JNull
       ELSE JDict(<<<<"stargazerCount", StargazerCount(query[i][2], query[i][3])>>>>)>>]

\* updated_at = datetime.now(timezone.utc).isoformat()
UpdatedAt == JStr(<<"2026-03-03T00:00:00+00:00">>)

\* for i, (plugin_name, owner, repo) in enumerate(batch), from item i on
RECURSIVE BatchUpdates(_, _, _, _)
BatchUpdates(upd, b, data, i) ==
  IF i > Len(b) THEN upd
  ELSE LET key == Alias(i - 1)
           repo_obj == Get(data, key)
           stars == IF repo_obj.t = "dict" THEN Get(repo_obj.fields, "stargazerCount")
                    ELSE JNull
       IN IF repo_obj.t # "dict" \/ stars.t # "num"
            THEN BatchUpdates(upd, b, data, i + 1)
            ELSE BatchUpdates(
                   Set(upd, b[i][1],
                       JDict(<<<<"stars", stars>>, <<"stars_updated_at", UpdatedAt>>,
                               <<"repo", JStr(<<b[i][2], "/", b[i][3]>>)>>>>)),
                   b, data, i + 1)

\* index.json as the scan pass may meet it: the files of the discussion sync,
\* and one whose entries carry a `.git` url, an http url with a closing `/`, a
\* url of another host and no dict.
RepoEntry(url) == Set(FullEntry, "github", JStr(<<url>>))
ScanDisks ==
  SyncDisks \cup
  {File(JsonDumps(JDict(<<<<"version", JNum("1")>>,
                          <<"plugins",
                            JDict(<<<<"b", JDict(RepoEntry("http://github.com/o/p1/"))>>,
                                    <<"a", JDict(RepoEntry("https://github.com/o/p0.git"))>>,
                                    <<"custom", JDict(RepoEntry("https://github.com/o/p2"))>>
                                  >>)>>>>), FALSE)),
   File(JsonDumps(JDict(<<<<"version", JNum("1")>>,
                          <<"plugins",
                            JDict(<<<<"a", JDict(RepoEntry("https://example.org/o/p0"))>>,
                                    <<"b", JStr(<<"junk">>)>>>>)>>>>), FALSE))}

\* _scan_and_write_updates: index = _load_index(), the items, and the end of
\* a scan that found none.
ScanLoadIndex ==
  /\ st_pc = "scan"
  /\ IF StarsLoadFails(disk)
       THEN /\ st_pc' = "scan_failed"
            /\ h_load' = "failed"
            /\ UNCHANGED <<index, updates, sc_items>>
       ELSE LET loaded == StarsLoadedIndex(disk)
                found == ScanItems(Get(loaded, "plugins").fields, 1)
            IN /\ index' = loaded
               /\ h_load' = "ok"
               /\ sc_items' = found
               /\ updates' = IF found = <<>> THEN File(JsonDumps(JDict(<<>>), FALSE))
                             ELSE updates
               /\ st_pc' = IF found = <<>> THEN "scanned"
                           ELSE IF ChunksRaises(chunk_size) THEN "scan_failed"
                           ELSE "batches"
  /\ reads' = IF disk.exists THEN reads + 1 ELSE reads
  /\ h_loaded' = index'
  /\ UNCHANGED <<ix_pc, disk, worktree, env, h_name, h_meta, h_url, h_prior, writes>>
  /\ UNCHANGED <<chunk_size, batch, sc_updates, h_queries, h_disk0>>
  /\ UNCHANGED notStarsVars

\* One round of `for batch in _chunks(items, chunk_size)`: the query, the
\* answer of _graphql, the updates of the batch.
ScanBatch ==
  /\ st_pc = "batches"
  /\ batch < Len(Chunks(sc_items, chunk_size))
  /\ LET b == Chunks(sc_items, chunk_size)[batch + 1]
         query == Query(b)
     IN /\ h_queries' = Append(h_queries, query)
        /\ \E answer \in {"data", "errors", "failed"} :
             IF answer = "data"
               THEN /\ sc_updates' = BatchUpdates(sc_updates, b, GitHubData(query), 1)
                    /\ batch' = batch + 1
                    /\ st_pc' = st_pc
               ELSE /\ st_pc' = "scan_failed"
                    /\ UNCHANGED <<sc_updates, batch>>
  /\ UNCHANGED <<updates, chunk_size, sc_items, h_disk0>>
  /\ UNCHANGED indexVars
  /\ UNCHANGED notStarsVars

\* updates_path.write_text(json.dumps(updates, indent=2, sort_keys=True) + "\n")
WriteUpdates ==
  /\ st_pc = "batches"
  /\ batch = Len(Chunks(sc_items, chunk_size))
  /\ updates' = File(JsonDumps(JDict(sc_updates), TRUE))
  /\ st_pc' = "scanned"
  /\ UNCHANGED scanVars
  /\ UNCHANGED indexVars
  /\ UNCHANGED notStarsVars

\* The workflow starts the discussion sync between the two passes.
SyncBetweenPasses ==
  /\ st_pc = "scanned"
  /\ sy_pc = "idle"
  /\ sy_pc' = "start"
  /\ UNCHANGED <<run_all, plugin_names, pos, index_before, discussions, ranking,
                 repeats, max_plugins, h_prev, h_created, h_found, h_reopened, h_closed0,
                 h_lookup, h_searched>>
  /\ UNCHANGED indexVars
  /\ UNCHANGED notSyncVars

\* main() with --mode apply, once the scan pass and the discussion sync, if the
\* workflow ran one, have ended.
ApplyPass ==
  /\ st_pc = "scanned"
  /\ sy_pc \in {"idle", "done", "failed"}
  /\ st_pc' = "load"
  /\ UNCHANGED <<updates, scanVars>>
  /\ UNCHANGED indexVars
  /\ UNCHANGED notStarsVars

\* --------------------------------------------- publish_index_release.py

\* A request: the method, what it addresses, and the id of the asset (0: none).
PubReq(method, what, n) == [method |-> method, what |-> what, n |-> n]

\* The call req, sent now, fails with kind: an HTTP error status ("404" and
\* "422" told apart from the others, "http"), a transport error
\* ("transport"), a body that is no JSON object or lacks what the caller
\* needs ("malformed").
Failed(req, kind) ==
  Append(pb_failures, [req |-> req, kind |-> kind, at |-> Len(pb_requests) + 1])

\* The id GitHub gives the next asset.
NextAssetId == Len(h_uploads) + 2

\* _get_owner_repo, asset_name, and the read of index.json
PublishStart ==
  /\ pb_pc = "start"
  /\ \E ready \in BOOLEAN :
       IF ready THEN pb_pc' = "lookup" /\ pb_exit' = "none"
       ELSE pb_pc' = "failed" /\ pb_exit' = "1"
  /\ UNCHANGED <<pb_requests, pb_failures, release, to_delete, gh_release, gh_assets,
                 rival, h_payload>>
  /\ UNCHANGED <<who, other, h_uploads>>
  /\ UNCHANGED notPubVars

\* release_opt = _get_latest_release(owner, repo): _request_json_allow_404
GetReleaseByTag_tolerates(kind) == kind = "404"
GetReleaseByTag ==
  /\ pb_pc = "lookup"
  /\ LET req == PubReq("GET", "releases/tags", 0)
     IN /\ pb_requests' = Append(pb_requests, req)
        /\ \E net \in {"ok", "404", "http", "transport", "malformed"} :
             /\ net = "ok" => gh_release
             /\ net = "404" => ~gh_release
             /\ pb_failures' = IF net = "ok" THEN pb_failures ELSE Failed(req, net)
             /\ IF net = "ok" THEN pb_pc' = "get" /\ pb_exit' = "none"
                ELSE IF GetReleaseByTag_tolerates(net)
                  THEN pb_pc' = "create" /\ pb_exit' = "none"
                ELSE pb_pc' = "failed" /\ pb_exit' = "1"
  /\ UNCHANGED <<release, to_delete, gh_release, gh_assets, rival, h_payload>>
  /\ UNCHANGED <<who, other, h_uploads>>
  /\ UNCHANGED notPubVars

\* release_opt = _create_release(owner, repo), and the check of its id
CreateRelease ==
  /\ pb_pc = "create"
  /\ LET req == PubReq("POST", "releases", 0)
     IN /\ pb_requests' = Append(pb_requests, req)
        /\ \E net \in {"ok", "http", "transport", "malformed"} :
             /\ pb_failures' = IF net = "ok" THEN pb_failures ELSE Failed(req, net)
             /\ gh_release' = (gh_release \/ net \in {"ok", "malformed"})
             /\ IF net = "ok" THEN pb_pc' = "get" /\ pb_exit' = "none"
                ELSE pb_pc' = "failed" /\ pb_exit' = "1"
  /\ UNCHANGED <<release, to_delete, gh_assets, rival, h_payload>>
  /\ UNCHANGED <<who, other, h_uploads>>
  /\ UNCHANGED notPubVars

\* release = _get_release(owner, repo, rid), the first time and after the
\* deletions; a payload without upload_url fails the upload before it is sent.
GetRelease ==
  /\ pb_pc \in {"get", "reget"}
  /\ LET req == PubReq("GET", "releases/id", 0)
     IN /\ pb_requests' = Append(pb_requests, req)
        /\ \E net \in {"ok", "http", "transport", "malformed"} :
             /\ pb_failures' = IF net = "ok" THEN pb_failures ELSE Failed(req, net)
             /\ IF net = "ok"
                  THEN /\ release' = gh_assets
                       /\ pb_pc' = IF pb_pc = "get" THEN "upload" ELSE "reupload"
                       /\ pb_exit' = "none"
                  ELSE /\ release' = release
                       /\ pb_pc' = "failed"
                       /\ pb_exit' = "1"
  /\ UNCHANGED <<to_delete, gh_release, gh_assets, rival, h_payload>>
  /\ UNCHANGED <<who, other, h_uploads>>
  /\ UNCHANGED notPubVars

\* _delete_existing_assets(release_payload): the ids of the assets of the
\* payload that carry asset_name.
ExistingAssets_none(release_payload) == {}
ExistingAssets(release_payload) == release_payload

\* _upload_asset, and what main() does with its HTTP 422: GitHub answers 422
\* where the release holds an asset of that name.
UploadAsset_once(pc, kind) == FALSE
UploadAsset_retries(pc, kind) == pc = "upload" /\ kind = "422"
UploadAsset ==
  /\ pb_pc \in {"upload", "reupload"}
  /\ LET req == PubReq("POST", "assets", 0)
     IN /\ pb_requests' = Append(pb_requests, req)
        /\ \E net \in {"ok", "422", "http", "transport"} :
             /\ net = "ok" => gh_assets = {}
             /\ net = "422" => gh_assets # {}
             /\ pb_failures' = IF net = "ok" THEN pb_failures ELSE Failed(req, net)
             /\ gh_assets' = IF net = "ok" THEN {NextAssetId} ELSE gh_assets
             /\ h_uploads' = IF net = "ok"
                                THEN Append(h_uploads, [id |-> NextAssetId, by |-> who])
                                ELSE h_uploads
             /\ IF net = "ok"
                  THEN /\ pb_pc' = "done"
                       /\ pb_exit' = "0"
                       /\ UNCHANGED <<to_delete, h_payload>>
                ELSE IF UploadAsset_retries(pb_pc, net)
                  THEN /\ pb_pc' = IF ExistingAssets(release) = {} THEN "reget"
                                   ELSE "delete"
                       /\ pb_exit' = "none"
                       /\ to_delete' = ExistingAssets(release)
                       /\ h_payload' = release
                ELSE /\ pb_pc' = "failed"
                     /\ pb_exit' = "1"
                     /\ UNCHANGED <<to_delete, h_payload>>
  /\ UNCHANGED <<release, gh_release, rival>>
  /\ UNCHANGED <<who, other>>
  /\ UNCHANGED notPubVars

\* One round of the loop of _delete_existing_assets: _delete_asset(aid)
DeleteAsset ==
  /\ pb_pc = "delete"
  /\ to_delete # {}
  /\ LET aid == CHOOSE a \in to_delete : \A b \in to_delete : a <= b
         req == PubReq("DELETE", "assets", aid)
     IN /\ pb_requests' = Append(pb_requests, req)
        /\ \E net \in {"ok", "404", "http", "transport"} :
             /\ net = "ok" => aid \in gh_assets
             /\ net = "404" => aid \notin gh_assets
             /\ pb_failures' = IF net = "ok" THEN pb_failures ELSE Failed(req, net)
             /\ IF net = "ok"
                  THEN /\ gh_assets' = gh_assets \ {aid}
                       /\ to_delete' = to_delete \ {aid}
                       /\ pb_pc' = IF to_delete = {aid} THEN "reget" ELSE "delete"
                       /\ pb_exit' = "none"
                  ELSE /\ UNCHANGED <<gh_assets, to_delete>>
                       /\ pb_pc' = "failed"
                       /\ pb_exit' = "1"
  /\ UNCHANGED <<release, gh_release, rival, h_payload>>
  /\ UNCHANGED <<who, other, h_uploads>>
  /\ UNCHANGED notPubVars

\* GitHub: another publisher uploads its asset of that name while main() runs.
RivalUpload ==
  /\ pb_pc \in {"get", "upload", "delete", "reget", "reupload"}
  /\ ~rival
  /\ gh_release
  /\ gh_assets = {}
  /\ gh_assets' = {NextAssetId}
  /\ h_uploads' = Append(h_uploads, [id |-> NextAssetId, by |-> "rival"])
  /\ rival' = TRUE
  /\ UNCHANGED <<pb_pc, pb_exit, pb_requests, pb_failures, release, to_delete,
                 gh_release, h_payload>>
  /\ UNCHANGED <<who, other>>
  /\ UNCHANGED notPubVars

\* The run that is not at its turn, before it has started and as a record of
\* the run at its turn.
Waiting(name) ==
  [who |-> name, pc |-> "start", exit |-> "none", requests |-> <<>>, failures |-> <<>>,
   release |-> {}, to_delete |-> {}, payload |-> {}]
NoOther == [Waiting("B") EXCEPT !.pc = "idle"]
AtTurn ==
  [who |-> who, pc |-> pb_pc, exit |-> pb_exit, requests |-> pb_requests,
   failures |-> pb_failures, release |-> release, to_delete |-> to_delete,
   payload |-> h_payload]

\* Two processes run main() at once: the turn passes to the other one, whose
\* next call reaches GitHub next.
Switch ==
  /\ pb_pc # "idle"
  /\ other.pc \notin {"idle", "done", "failed"}
  /\ who' = other.who
  /\ pb_pc' = other.pc
  /\ pb_exit' = other.exit
  /\ pb_requests' = other.requests
  /\ pb_failures' = other.failures
  /\ release' = other.release
  /\ to_delete' = other.to_delete
  /\ h_payload' = other.payload
  /\ other' = AtTurn
  /\ UNCHANGED <<gh_release, gh_assets, rival, h_uploads>>
  /\ UNCHANGED notPubVars

\* ---------------------------------------------------- index.json: writers

\* The same dict built in the opposite insertion order, at every level.
RECURSIVE Reordered(_)
Reordered(items) ==
  [i \in DOMAIN items |->
     LET item == items[Len(items) + 1 - i]
     IN <<item[1], IF item[2].t = "dict" THEN JDict(Reordered(item[2].fields))
                   ELSE item[2]>>]

\* The indices a writer may hold when it saves.
BaseIndices ==
  {<<<<"version", JNum("1")>>, <<"plugins", JDict(p)>>>> : p \in PriorPlugins}
  \cup {<<<<"version", JNum("2")>>, <<"plugins", JDict(<<<<"a", JDict(FullEntry)>>>>)>>>>,
        <<<<"plugins", JDict(<<<<"b", JDict(FullEntry)>>, <<"a", JDict(OddEntry)>>>>)>>,
          <<"version", JNum("1")>>>>,
        <<<<"version", JNum("1")>>, <<"plugins", JStr(<<"x">>)>>>>}
Indices == BaseIndices \cup {Reordered(ix) : ix \in BaseIndices}

\* _save_index(left) and _save_index(right), each on a file of its own
SaveBoth ==
  /\ ser_pc = "start"
  /\ left_text' = IF ser_script = "ensure" THEN SavedText(left) ELSE StarsSavedText(left)
  /\ right_text' = IF ser_script = "ensure" THEN SavedText(right) ELSE StarsSavedText(right)
  /\ ser_pc' = "done"
  /\ UNCHANGED <<ser_script, left, right>>
  /\ UNCHANGED notSerVars

\* ------------------------------------------------------ specifications

IdleSerialize ==
  /\ ser_pc = "idle"
  /\ ser_script = "ensure"
  /\ left = EmptyIndex
  /\ right = EmptyIndex
  /\ left_text = <<>>
  /\ right_text = <<>>

IdleSweep ==
  /\ sw_pc = "idle"
  /\ dry_run = FALSE
  /\ cutoff = 0 - INACTIVITY_DAYS
  /\ cursor = 0
  /\ pending = 0
  /\ page_info = [ok |-> TRUE, has_next |-> FALSE, end_cursor |-> FALSE]
  /\ scanned = 0
  /\ closed = 0
  /\ queries = 0
  /\ requests = <<>>
  /\ to_close = {}
  /\ gh_closed = {}
  /\ gh_comments = {}
  /\ delivered = 0
  /\ evaluated = {}
  /\ stopped_at = 0
  /\ h_drafts = {}
  /\ h_expected = {}
  /\ h_active = FALSE
  /\ h_last = Earliest
  /\ h_ascending = TRUE
  /\ sw_failures = <<>>

IdleValidate ==
  /\ v_pc = "idle"
  /\ v_result = "none"
  /\ changes = {}
  /\ plugin_files = {}
  /\ thumbnails = {}
  /\ doc = NoMapping("null")
  /\ repo = "ok"
  /\ thumb = NoThumb

IdleIndex ==
  /\ ix_pc = "idle"
  /\ index = EmptyIndex
  /\ disk = NoFile
  /\ worktree = {}
  /\ env = [repository |-> "", ref_name |-> ""]
  /\ h_name = ""
  /\ h_meta = <<>>
  /\ h_url = JNull
  /\ h_prior = <<>>
  /\ reads = 0
  /\ writes = 0
  /\ h_load = "none"
  /\ h_loaded = EmptyIndex

IdleScan ==
  /\ chunk_size = DEFAULT_CHUNK_SIZE
  /\ sc_items = <<>>
  /\ batch = 0
  /\ sc_updates = <<>>
  /\ h_queries = <<>>
  /\ h_disk0 = NoFile

IdleStars ==
  /\ st_pc = "idle"
  /\ updates = NoFile
  /\ IdleScan

IdleFun ==
  /\ fn_pc = "idle"
  /\ fn_args = <<>>
  /\ fn_result = <<>>

IdlePublish ==
  /\ pb_pc = "idle"
  /\ pb_exit = "none"
  /\ pb_requests = <<>>
  /\ pb_failures = <<>>
  /\ release = {}
  /\ to_delete = {}
  /\ gh_release = FALSE
  /\ gh_assets = {}
  /\ rival = FALSE
  /\ h_payload = {}
  /\ who = "A"
  /\ other = NoOther
  /\ h_uploads = <<>>

NoRunBefore == [ok |-> FALSE, names |-> <<>>, run_all |-> FALSE, same_tree |-> FALSE,
                fields |-> DiscussionFields(EmptyIndex), touched |-> {}, disk |-> NoFile,
                n |-> 0]

IdleSync ==
  /\ sy_pc = "idle"
  /\ run_all = FALSE
  /\ plugin_names = <<>>
  /\ pos = 0
  /\ index_before = <<>>
  /\ discussions = <<>>
  /\ ranking = "oldest"
  /\ repeats = FALSE
  /\ max_plugins = DEFAULT_MAX_PLUGINS
  /\ h_prev = NoRunBefore
  /\ h_created = {}
  /\ h_found = {}
  /\ h_reopened = {}
  /\ h_closed0 = {}
  /\ h_lookup = [name |-> "", found |-> 0, n |-> 0]
  /\ h_searched = {}

InitSweep ==
  /\ IdleValidate
  /\ IdleIndex
  /\ IdleSerialize
  /\ IdleStars
  /\ IdleSync
  /\ IdlePublish
  /\ IdleFun
  /\ sw_pc = "fetch"
  /\ dry_run \in BOOLEAN
  /\ cutoff = 0 - INACTIVITY_DAYS
  /\ cursor = 0
  /\ pending = 0
  /\ page_info = [ok |-> TRUE, has_next |-> FALSE, end_cursor |-> FALSE]
  /\ scanned = 0
  /\ closed = 0
  /\ queries = 0
  /\ requests = <<>>
  /\ to_close = {}
  /\ gh_closed = {}
  /\ gh_comments = {}
  /\ delivered = 0
  /\ evaluated = {}
  /\ stopped_at = 0
  /\ h_drafts = {}
  /\ h_expected = {}
  /\ h_active = FALSE
  /\ h_last = Earliest
  /\ h_ascending = TRUE
  /\ sw_failures = <<>>

NextSweep == FetchPage \/ ScanNode \/ EndPage

SpecSweep == InitSweep /\ [][NextSweep]_vars

InitValidate ==
  /\ IdleSweep
  /\ IdleIndex
  /\ IdleSerialize
  /\ IdleStars
  /\ IdleSync
  /\ IdlePublish
  /\ IdleFun
  /\ v_pc = "diff"
  /\ v_result = "none"
  /\ changes = {}
  /\ plugin_files = {}
  /\ thumbnails = {}
  /\ doc = NoMapping("null")
  /\ repo = "ok"
  /\ thumb = NoThumb

NextValidate ==
  \/ GetChangedFiles
  \/ ListPluginFiles
  \/ ReadPluginYaml
  \/ ReadThumbnail
  \/ CheckDeleted

SpecValidate == InitValidate /\ [][NextValidate]_vars

\* The metadata reader on its own: every document, every answer of the API.
InitYaml ==
  /\ IdleSweep
  /\ IdleIndex
  /\ IdleSerialize
  /\ IdleStars
  /\ IdleSync
  /\ IdlePublish
  /\ IdleFun
  /\ v_pc = "reader"
  /\ v_result = "none"
  /\ changes = {}
  /\ plugin_files = {}
  /\ thumbnails = {}
  /\ doc \in Docs
  /\ repo \in Repos
  /\ thumb = NoThumb

NextYaml == ValidateYamlBytes

SpecYaml == InitYaml /\ [][NextYaml]_vars

\* The index operations: a load, upserts, a save, and the load of what was saved.
InitIndex ==
  /\ IdleSweep
  /\ IdleValidate
  /\ IdleSerialize
  /\ IdleStars
  /\ IdleSync
  /\ IdlePublish
  /\ IdleFun
  /\ ix_pc = "load"
  /\ index = EmptyIndex
  /\ disk \in Disks
  /\ worktree \in Trees
  /\ env \in Envs
  /\ h_name = ""
  /\ h_meta = <<>>
  /\ h_url = JNull
  /\ h_prior = <<>>
  /\ reads = 0
  /\ writes = 0
  /\ h_load = "none"
  /\ h_loaded = EmptyIndex

NextIndex == LoadIndex \/ UpsertIndexPlugin \/ SaveIndex

SpecIndex == InitIndex /\ [][NextIndex]_vars

\* Two indices in memory and the texts their writer produces for them.
InitSerialize ==
  /\ IdleSweep
  /\ IdleValidate
  /\ IdleIndex
  /\ IdleStars
  /\ IdleSync
  /\ IdlePublish
  /\ IdleFun
  /\ ser_pc = "start"
  /\ ser_script \in {"ensure", "stars"}
  /\ left \in Indices
  /\ right \in Indices
  /\ left_text = <<>>
  /\ right_text = <<>>

NextSerialize == SaveBoth

SpecSerialize == InitSerialize /\ [][NextSerialize]_vars

\* The apply pass of update_index_stars.py on every index.json and updates file.
InitStars ==
  /\ IdleSweep
  /\ IdleValidate
  /\ IdleSerialize
  /\ IdleSync
  /\ IdlePublish
  /\ IdleFun
  /\ ix_pc = "idle"
  /\ index = EmptyIndex
  /\ disk \in Disks
  /\ worktree = {}
  /\ env = [repository |-> "", ref_name |-> ""]
  /\ h_name = ""
  /\ h_meta = <<>>
  /\ h_url = JNull
  /\ h_prior = <<>>
  /\ reads = 0
  /\ writes = 0
  /\ h_load = "none"
  /\ h_loaded = EmptyIndex
  /\ st_pc = "load"
  /\ updates \in UpdatesFiles
  /\ IdleScan

NextStars == StarsLoadIndex \/ ApplyUpdates

SpecStars == InitStars /\ [][NextStars]_vars

\* Both readers of index.json.
InitLoad == InitIndex \/ InitStars

NextLoad == NextIndex \/ NextStars

SpecLoad == InitLoad /\ [][NextLoad]_vars

\* main() of ensure_plugin_discussions.py, run after run.
InitSync ==
  /\ IdleSweep
  /\ IdleValidate
  /\ IdleSerialize
  /\ IdleStars
  /\ IdlePublish
  /\ IdleFun
  /\ ix_pc = "idle"
  /\ index = EmptyIndex
  /\ disk \in SyncDisks
  /\ worktree \in SyncTrees
  /\ env \in {[repository |-> "", ref_name |-> ""], [repository |-> "o/r", ref_name |-> ""]}
  /\ h_name = ""
  /\ h_meta = <<>>
  /\ h_url = JNull
  /\ h_prior = <<>>
  /\ reads = 0
  /\ writes = 0
  /\ h_load = "none"
  /\ h_loaded = EmptyIndex
  /\ sy_pc = "start"
  /\ run_all = FALSE
  /\ plugin_names = <<>>
  /\ pos = 0
  /\ index_before = <<>>
  /\ discussions \in InitialDiscussions
  /\ ranking \in {"oldest", "newest"}
  /\ repeats = FALSE
  /\ max_plugins = DEFAULT_MAX_PLUGINS
  /\ h_prev = [NoRunBefore EXCEPT !.disk = disk]
  /\ h_created = {}
  /\ h_found = {}
  /\ h_reopened = {}
  /\ h_closed0 = {i \in DOMAIN discussions : discussions[i].closed}
  /\ h_lookup = [name |-> "", found |-> 0, n |-> 0]
  /\ h_searched = {}

NextSync ==
  \/ Detect
  \/ SyncLoadIndex
  \/ GetRepoAndCategory
  \/ SyncPlugin
  \/ SaveIfChanged
  \/ NextRun

SpecSync == InitSync /\ [][NextSync]_vars

\* main() of publish_index_release.py, with or without a release, an asset
\* and a rival publisher.
InitPublish ==
  /\ IdleFun
  /\ IdleSweep
  /\ IdleValidate
  /\ IdleIndex
  /\ IdleSerialize
  /\ IdleStars
  /\ IdleSync
  /\ pb_pc = "start"
  /\ pb_exit = "none"
  /\ pb_requests = <<>>
  /\ pb_failures = <<>>
  /\ release = {}
  /\ to_delete = {}
  /\ gh_release \in BOOLEAN
  /\ gh_assets \in (IF gh_release THEN {{}, {1}} ELSE {{}})
  /\ rival = FALSE
  /\ h_payload = {}
  /\ who = "A"
  /\ other = NoOther
  /\ h_uploads = <<>>

NextPublish ==
  \/ PublishStart
  \/ GetReleaseByTag
  \/ CreateRelease
  \/ GetRelease
  \/ UploadAsset
  \/ DeleteAsset
  \/ RivalUpload

SpecPublish == InitPublish /\ [][NextPublish]_vars

\* _prune_removed_plugins on its own.
InitPrune ==
  /\ IdleSweep
  /\ IdleValidate
  /\ IdleIndex
  /\ IdleSerialize
  /\ IdleStars
  /\ IdleSync
  /\ IdlePublish
  /\ fn_pc = "call"
  /\ fn_args \in [index : {<<<<"version", JNum("1")>>, <<"plugins", JDict(ps)>>>> :
                             ps \in PrunePlugins},
                   fs : PruneTrees]
  /\ fn_result = <<>>

NextPrune == Prune

SpecPrune == InitPrune /\ [][NextPrune]_vars

\* _detected_plugin_names on its own.
InitDetect ==
  /\ IdleSweep
  /\ IdleValidate
  /\ IdleIndex
  /\ IdleSerialize
  /\ IdleStars
  /\ IdleSync
  /\ IdlePublish
  /\ fn_pc = "call"
  /\ fn_args \in [before : Shas, run_all : BOOLEAN,
                   ls_tree : SUBSET {p \in RepoPaths : p[1] = "plugins"},
                   diff : SUBSET RepoPaths]
  /\ fn_result = <<>>

NextDetect == DetectPluginNames

SpecDetect == InitDetect /\ [][NextDetect]_vars

\* The runs whose calls of GitHub can fail: the publisher and the sweep.
InitNetwork == InitPublish \/ InitSweep

NextNetwork == NextPublish \/ NextSweep

SpecNetwork == InitNetwork /\ [][NextNetwork]_vars

\* Two runs of publish_index_release.py at once, on a release that exists
\* or not, with or without an asset of the name.
InitRace ==
  /\ IdleFun
  /\ IdleSweep
  /\ IdleValidate
  /\ IdleIndex
  /\ IdleSerialize
  /\ IdleStars
  /\ IdleSync
  /\ pb_pc = "start"
  /\ pb_exit = "none"
  /\ pb_requests = <<>>
  /\ pb_failures = <<>>
  /\ release = {}
  /\ to_delete = {}
  /\ gh_release \in BOOLEAN
  /\ gh_assets \in (IF gh_release THEN {{}, {1}} ELSE {{}})
  /\ rival = FALSE
  /\ h_payload = {}
  /\ who = "A"
  /\ other = Waiting("B")
  /\ h_uploads = <<>>

NextRace ==
  \/ PublishStart
  \/ GetReleaseByTag
  \/ CreateRelease
  \/ GetRelease
  \/ UploadAsset
  \/ DeleteAsset
  \/ Switch

SpecRace == InitRace /\ [][NextRace]_vars

\* The two passes of update_index_stars.py, with a run of the discussion sync
\* between them where the workflow starts one; and the apply pass on the
\* updates files anyone may have left.
InitTwoPass ==
  \/ InitStars
  \/ /\ IdleSweep
     /\ IdleValidate
     /\ IdleSerialize
     /\ IdleSync
     /\ IdlePublish
     /\ IdleFun
     /\ ix_pc = "idle"
     /\ index = EmptyIndex
     /\ disk \in ScanDisks
     /\ worktree \in SyncTrees
     /\ env = [repository |-> "o/r", ref_name |-> ""]
     /\ h_name = ""
     /\ h_meta = <<>>
     /\ h_url = JNull
     /\ h_prior = <<>>
     /\ reads = 0
     /\ writes = 0
     /\ h_load = "none"
     /\ h_loaded = EmptyIndex
     /\ st_pc = "scan"
     /\ updates \in {NoFile, File(JsonDumps(JStr(<<"x">>), FALSE))}
     /\ chunk_size \in ChunkSizes
     /\ sc_items = <<>>
     /\ batch = 0
     /\ sc_updates = <<>>
     /\ h_queries = <<>>
     /\ h_disk0 = disk

NextTwoPass ==
  \/ ScanLoadIndex
  \/ ScanBatch
  \/ WriteUpdates
  \/ SyncBetweenPasses
  \/ Detect
  \/ SyncLoadIndex
  \/ GetRepoAndCategory
  \/ SyncPlugin
  \/ SaveIfChanged
  \/ ApplyPass
  \/ StarsLoadIndex
  \/ ApplyUpdates

SpecTwoPass == InitTwoPass /\ [][NextTwoPass]_vars

\* The runs that load index.json and write it back.
InitWriters == InitSync \/ InitStars

NextWriters == NextSync \/ NextStars

SpecWriters == InitWriters /\ [][NextWriters]_vars

\* ----------------------------------------------- stale-PR sweep: claims

Closable(pr, cut) ==
  /\ pr.shape = "dict"
  /\ ~pr.isDraft
  /\ pr.stamp = "str"
  /\ pr.updatedAt < cut
  /\ pr.rollup \in {"FAILURE", "ERROR"}

\* C1: every PR the sweep hands to _close_pr, and so every PR GitHub ends up
\* with closed, is non-draft, was updated strictly before the cutoff and has a
\* check rollup of FAILURE or ERROR; SUCCESS, PENDING, EXPECTED, an unknown
\* state or no state never gets a PR closed.
C1_ClosesOnlyStaleFailing ==
  /\ \A c \in to_close : Closable(c.pr, cutoff)
  /\ gh_closed \subseteq {c.number : c \in to_close}

\* A sweep that closed an ERROR PR and inspected another one it left open.
C1_Witness ==
  /\ \E c \in to_close : c.pr.rollup = "ERROR" /\ c.number \in gh_closed
  /\ evaluated \ {c.number : c \in to_close} # {}
  /\ sw_pc = "done"

PatchOf(n) == Req("PATCH", "pulls", n)
CommentOf(n) == Req("POST", "comments", n)

\* C2: the PRs whose checks the sweep evaluates are the non-draft PRs that come
\* before the first non-draft PR with updatedAt >= cutoff (all of them once
\* the sweep has ended normally); drafts are passed over without stopping; at
\* that first active PR the sweep ends: the PR is not evaluated, no request is
\* made for it, the rest of the page is not read and no further page is
\* queried.
C2_EarlyStop ==
  /\ evaluated \subseteq h_expected
  /\ sw_pc = "done" => evaluated = h_expected
  /\ evaluated \cap h_drafts = {}
  /\ stopped_at \notin h_drafts
  /\ h_active <=> stopped_at # 0
  /\ stopped_at # 0 =>
       /\ sw_pc = "done"
       /\ stopped_at = delivered
       /\ stopped_at \notin evaluated
       /\ \A i \in 1..Len(requests) : requests[i].n # stopped_at
       /\ queries = cursor + 1

\* Ascending feed: PR 1 is stale and evaluated, PR 2 is a draft, PR 3 is the
\* first active one; the sweep stops there although a further page exists.
C2_Witness ==
  /\ h_ascending
  /\ evaluated = {1}
  /\ h_drafts = {2}
  /\ stopped_at = 3
  /\ page_info.has_next /\ page_info.end_cursor
  /\ cursor + 1 < MaxPages

\* C3: under the dry-run flag no PATCH and no comment POST is issued and no PR
\* changes state; without it, requests come in pairs, the PATCH closing PR n
\* directly followed by the comment on PR n (a PATCH stands last only when it
\* failed and ended the run), and every PR handed to _close_pr got its PATCH.
C3_DryRunAndOrder ==
  /\ dry_run => requests = <<>> /\ gh_closed = {} /\ gh_comments = {}
  /\ \A i \in 1..Len(requests) :
       /\ requests[i].method = "PATCH" =>
            IF i < Len(requests) THEN requests[i + 1] = CommentOf(requests[i].n)
            ELSE sw_pc = "failed" /\ requests[i].n \notin gh_closed
       /\ requests[i].method = "POST" =>
            i > 1 /\ requests[i - 1] = PatchOf(requests[i].n)
  /\ ~dry_run =>
       /\ \A c \in to_close :
            \E i \in 1..Len(requests) : requests[i] = PatchOf(c.number)
       /\ \A n \in gh_comments : n \in gh_closed

\* A finished dry run that picked two PRs for closing.
C3_Witness ==
  /\ dry_run
  /\ sw_pc = "done"
  /\ closed = 2
  /\ Cardinality(to_close) = 2

\* A finished real run that closed and commented two PRs.
C3_WitnessReal ==
  /\ ~dry_run
  /\ sw_pc = "done"
  /\ Len(requests) = 4
  /\ gh_comments = gh_closed
  /\ Cardinality(gh_closed) = 2

\* ------------------------------------------------- PR validator: claims

\* Every file the change set touches: the paths listed, and for a rename the
\* path the file was moved away from.
ChangedFiles ==
  {c.path : c \in changes} \cup {c.old : c \in {x \in changes : x.status = "R100"}}

UnderRoot(path, name) == Len(path) >= 3 /\ SubSeq(path, 1, 2) = RootOf(name)

FolderNames == {"a", "b", "_r"}

\* C4: validation succeeds only if every changed file (added, modified,
\* deleted, or either end of a rename) lies under one and the same
\* plugins/<name>/ root; a change set with a file outside plugins/<name>/<file>
\* fails with OutOfScope, and one touching two roots fails with
\* MultiplePluginsTouched.
C4_Containment ==
  /\ v_result = "ok" =>
       \E n \in FolderNames : \A p \in ChangedFiles : UnderRoot(p, n)
  /\ (v_pc # "diff" /\ \E p \in ChangedFiles : \A n \in FolderNames : ~UnderRoot(p, n))
       => v_result = "OutOfScope"
  /\ (v_pc # "diff" /\ (\A p \in ChangedFiles : \E n \in FolderNames : UnderRoot(p, n))
        /\ \E p, q \in ChangedFiles : SubSeq(p, 1, 2) # SubSeq(q, 1, 2))
       => v_result = "MultiplePluginsTouched"

\* The validator passes a change set that moves another plugin's thumbnail
\* into plugins/a.
C4_RenameAccepted ==
  /\ v_result = "ok"
  /\ \E c \in changes :
       /\ c.status = "R100"
       /\ c.old = <<"plugins", "b", "thumbnail.png">>
       /\ c.path = <<"plugins", "a", "thumbnail.png">>

\* The image files that may serve as the thumbnail, directly under the root.
IsThumbnailName(name) ==
  name \in {"thumbnail.png", "Thumbnail.JPG"}

\* C5: validation succeeds only if the plugin folder at the head commit holds
\* plugin.yaml directly under the root, at most one image named
\* thumbnail.<png|jpg|jpeg|webp> (case-insensitively), no other file and no
\* subdirectory; a folder of plugin.yaml and two thumbnails fails with
\* MultipleThumbnails, and a folder with a file in a subdirectory fails.
C5_FolderContent ==
  /\ v_result = "ok" =>
       /\ PluginRoot(changes) \o <<"plugin.yaml">> \in plugin_files
       /\ \A f \in plugin_files :
            /\ Len(f) = 3
            /\ f[3] = "plugin.yaml" \/ IsThumbnailName(f[3])
       /\ Cardinality({f \in plugin_files : IsThumbnailName(f[3])}) <= 1
  /\ ((\E f \in plugin_files : Len(f) = 3 /\ f[3] = "plugin.yaml")
        /\ (\A f \in plugin_files :
              Len(f) = 3 /\ (f[3] = "plugin.yaml" \/ IsThumbnailName(f[3])))
        /\ Cardinality({f \in plugin_files : IsThumbnailName(f[3])}) > 1)
       => v_result = "MultipleThumbnails"
  /\ (\E f \in plugin_files : Len(f) > 3) => v_result \notin {"none", "ok"}

\* The validator passes a folder that holds a second declaration in a
\* subdirectory.
C5_SubdirectoryAccepted ==
  /\ v_result = "ok"
  /\ plugin_files = {<<"plugins", "a", "plugin.yaml">>,
                     <<"plugins", "a", "sub", "plugin.yaml">>}

\* C6: a change set in which some path has deletion status never validates:
\* once main() has ended the result is a failure, whatever else was changed.
C6_AdditiveOnly ==
  (\E c \in changes : c.status = "D") =>
     /\ v_result # "ok"
     /\ v_pc = "done" => v_result # "none"

\* A deletion next to an addition that passes every other check.
C6_Witness ==
  /\ v_result = "DeletionNotAllowed"
  /\ \E c, d \in changes : c.status = "D" /\ d.status = "A"

\* main() has run _validate_thumbnail on the file.
ThumbnailChecked == thumb # NoThumb

C7_WitnessLarge ==
  /\ v_result = "ThumbnailTooLarge"
  /\ thumb.size = 21504
  /\ thumb.decodes
  /\ thumb.w # thumb.h

\* ------------------------------------------- plugin.yaml reader: claims

\* The document has both an unsupported key and a missing required key.
ExtraAndMissing(d) ==
  /\ d.top = "mapping"
  /\ d.keys \ {"title", "description", "github", "tags"} # {}
  /\ {"title", "description", "github"} \ d.keys # {}

KeySetFits(d) ==
  /\ d.top = "mapping"
  /\ d.keys \subseteq {"title", "description", "github", "tags"}
  /\ {"title", "description", "github"} \subseteq d.keys

\* The declaration as the sentence reads: non-empty strings, github beginning
\* with the scheme.
AcceptableAsWritten(d, r) ==
  /\ KeySetFits(d)
  /\ d.title.kind = "str" /\ d.title.len > 0 /\ d.title.len <= 50
  /\ d.description.kind = "str" /\ d.description.len > 0 /\ d.description.len <= 500
  /\ d.github.kind = "str" /\ d.github.len > 0
  /\ d.github.url \in {"http", "https"} /\ ~d.github.lead
  /\ r = "ok"
  /\ "tags" \in d.keys =>
       d.tags.kind = "list" /\ d.tags.n <= 5 /\ d.tags.items \in {"ok", "blank"}

\* The original sentence of C8: accepted iff AcceptableAsWritten.
C8_AsWritten ==
  v_pc = "done" =>
    /\ v_result = "ok" <=> AcceptableAsWritten(doc, repo)
    /\ ExtraAndMissing(doc) => v_result = "UnsupportedFields"

\* The declaration as the reader takes it: strings that are not blank,
\* github matched once its surrounding whitespace is gone.
Acceptable(d, r) ==
  /\ KeySetFits(d)
  /\ d.title.kind = "str" /\ d.title.slen > 0 /\ d.title.len <= 50
  /\ d.description.kind = "str" /\ d.description.slen > 0 /\ d.description.len <= 500
  /\ d.github.kind = "str" /\ d.github.slen > 0
  /\ d.github.url \in {"http", "https"}
  /\ r = "ok"
  /\ "tags" \in d.keys =>
       d.tags.kind = "list" /\ d.tags.n <= 5 /\ d.tags.items = "ok"

\* C8: a declaration is accepted iff it is a mapping whose keys are within
\* {title, description, github, tags} and include title, description and
\* github, these three are strings with a non-whitespace character, title of
\* at most 50 and description of at most 500 characters, github, stripped of
\* surrounding whitespace, starts with http:// or https:// and resolves to a
\* github.com repository whose default branch holds plugin.yaml, and tags, if
\* present, is a list of at most 5 strings each with a non-whitespace
\* character; with an unsupported key and a missing key together the failure
\* is UnsupportedFields.
C8_MetadataReader ==
  v_pc = "done" =>
    /\ v_result = "ok" <=> Acceptable(doc, repo)
    /\ ExtraAndMissing(doc) => v_result = "UnsupportedFields"

\* A whitespace-only title, everything else in order: turned down.
C8_Witness ==
  /\ v_pc = "done"
  /\ doc.title = Str(2, 0)
  /\ AcceptableAsWritten(doc, repo)
  /\ v_result = "FieldNotNonEmptyString"

\* ------------------------------------------------- index.json: claims

GeneratorOwned == {"title", "description", "github", "thumbnail"}

\* The plugins dict of an index, and the fields of one of its entries.
PluginsOf(ix) ==
  IF Get(ix, "plugins").t = "dict" THEN Get(ix, "plugins").fields ELSE <<>>
FieldsOf(plugins, name) ==
  IF Get(plugins, name).t = "dict" THEN Get(plugins, name).fields ELSE <<>>

\* C9: an upsert leaves every field of the plugin's prior entry other than
\* title, description, github, thumbnail and discussion as it was (stars and
\* stars_updated_at among them), adds no field but those five, and leaves
\* every other plugin's entry, and the rest of the index, unchanged.
C9_MergePreservation ==
  ix_pc = "dirty" =>
    LET before == PluginsOf(h_prior)
        after == PluginsOf(index)
        old == FieldsOf(before, h_name)
        new == FieldsOf(after, h_name)
    IN /\ Get(after, h_name).t = "dict"
       /\ \A k \in Keys(old) \ (GeneratorOwned \cup {"discussion"}) :
            Has(new, k) /\ Get(new, k) = Get(old, k)
       /\ Keys(new) = Keys(old) \cup GeneratorOwned \cup {"discussion"}
       /\ Keys(after) = Keys(before) \cup {h_name}
       /\ \A n \in Keys(before) \ {h_name} : Get(after, n) = Get(before, n)
       /\ \A k \in Keys(h_prior) \ {"plugins"} :
            Has(index, k) /\ Get(index, k) = Get(h_prior, k)

\* Plugin a was upserted over an entry that carried stars and a custom field,
\* next to an entry for b: the fields are still there.
C9_Witness ==
  /\ ix_pc = "dirty"
  /\ h_name = "a"
  /\ Get(FieldsOf(PluginsOf(index), "a"), "stars") = JNum("7")
  /\ Get(FieldsOf(PluginsOf(index), "a"), "custom") = JStr(<<"keep">>)
  /\ Get(FieldsOf(PluginsOf(index), "a"), "title") = JStr(<<"T1">>)
  /\ Get(FieldsOf(PluginsOf(index), "b"), "stars") = JNum("5")

\* title, description and github are strings, as the validator demands.
ValidRecord(meta) ==
  \A k \in {"title", "description", "github"} : Get(meta, k).t = "str"

\* The thumbnail.<ext> files of the plugin's folder in the working tree.
ThumbnailsInTree(name) ==
  {f \in worktree : /\ Len(f) = 3
                    /\ SubSeq(f, 1, 2) = <<"plugins", name>>
                    /\ f[3] \in {"thumbnail.png", "thumbnail.jpg",
                                 "thumbnail.jpeg", "thumbnail.webp"}}

\* C10: after upsert(name, record, url), save and load, the entry's title,
\* description and github are those of the (valid) record, and thumbnail is
\* null when the plugin's folder holds no thumbnail.<ext> file and otherwise
\* the raw-content URL, on the current ref, of such a file; whatever the
\* prior entry held.
C10_GeneratorOwned ==
  (ix_pc = "reloaded" /\ h_name # "") =>
    LET entry == FieldsOf(PluginsOf(index), h_name)
        ref == IF env.ref_name = "" THEN "main" ELSE env.ref_name
    IN /\ Get(PluginsOf(index), h_name).t = "dict"
       /\ ValidRecord(h_meta) =>
            \A k \in {"title", "description", "github"} :
              Has(entry, k) /\ Get(entry, k) = Get(h_meta, k)
       /\ Has(entry, "thumbnail")
       /\ IF ThumbnailsInTree(h_name) = {} THEN Get(entry, "thumbnail") = JNull
          ELSE \E f \in ThumbnailsInTree(h_name) :
                 Get(entry, "thumbnail")
                   = JStr(<<"https://raw.githubusercontent.com", "o", "r", ref>> \o f)

\* The entry of a held other values for all four fields; after the round trip
\* it holds the record's, and no thumbnail as the tree has none.
C10_Witness ==
  /\ ix_pc = "reloaded"
  /\ h_name = "a"
  /\ ThumbnailsInTree("a") = {}
  /\ Get(FieldsOf(PluginsOf(index), "a"), "stars") = JNum("5")
  /\ Get(FieldsOf(PluginsOf(index), "a"), "title") = JStr(<<"T2">>)
  /\ Get(FieldsOf(PluginsOf(index), "a"), "thumbnail") = JNull

\* The same with a thumbnail in the tree, on the branch dev.
C10_WitnessThumbnail ==
  /\ ix_pc = "reloaded"
  /\ h_name = "a"
  /\ env.ref_name = "dev"
  /\ Get(FieldsOf(PluginsOf(index), "a"), "stars") = JNum("5")
  /\ Get(FieldsOf(PluginsOf(index), "a"), "thumbnail")
       = JStr(<<"https://raw.githubusercontent.com", "o", "r", "dev",
                "plugins", "a", "thumbnail.png">>)

\* ------------------------------------------------- index.json: writers' claims

\* The same JSON content, whatever the insertion order of the dicts.
RECURSIVE SameContent(_, _)
SameContent(x, y) ==
  /\ x.t = y.t
  /\ x.v = y.v
  /\ Keys(x.fields) = Keys(y.fields)
  /\ \A k \in Keys(x.fields) : SameContent(Get(x.fields, k), Get(y.fields, k))

\* The keys of the plugins object of a text, in the order they are written.
WrittenPluginKeys(text) ==
  LET plugins == Get(JsonLoads(text).fields, "plugins")
  IN [i \in DOMAIN plugins.fields |-> plugins.fields[i][1]]
IsSorted(keys) == keys = Sorted({keys[i] : i \in DOMAIN keys})

\* C11: two indices of the same content, whatever the insertion order of
\* their plugins and entry fields, are written as the same text, and the
\* plugins keys of a written text are in lexicographic order.
C11_SerializationDeterminism ==
  ser_pc = "done" =>
    /\ SameContent(JDict(left), JDict(right)) => left_text = right_text
    /\ IsSorted(WrittenPluginKeys(left_text))
    /\ IsSorted(WrittenPluginKeys(right_text))

\* Two indices of the same content, built in different orders, with two
\* plugins that were not inserted in order, have been written.
C11_Witness ==
  /\ ser_pc = "done"
  /\ left # right
  /\ SameContent(JDict(left), JDict(right))
  /\ Get(left, "plugins").t = "dict"
  /\ Len(Get(left, "plugins").fields) = 2
  /\ Get(left, "plugins").fields[1][1] = "b"

\* ------------------------------------------------- index.json: readers' claims

\* A _load_index has just ended: nothing has touched index or disk since.
EnsureLoadEnded ==
  \/ ix_pc \in {"ready", "reloaded"}
  \/ ix_pc = "failed" /\ h_load = "failed"
StarsLoadEnded == st_pc \in {"loaded", "failed"} /\ writes = 0 /\ h_load # "none"
LoadEnded == EnsureLoadEnded \/ StarsLoadEnded

\* What index.json holds, parsed.
OnDisk == JsonLoads(disk.text)
PluginsOnDisk == Get(OnDisk.fields, "plugins")

\* The index in memory is what the file holds, but for the keys in but.
SameBut(but) ==
  /\ Keys(index) \ but = Keys(OnDisk.fields) \ but
  /\ \A k \in Keys(index) \ but : Get(index, k) = Get(OnDisk.fields, k)

\* The load contract as the specification words it, for either reader: the
\* empty index where there is no file, a failure where the text is no JSON
\* object or holds a plugins value that is no object.
C13_AsWritten ==
  LoadEnded =>
    /\ ~disk.exists => h_load = "ok" /\ index = EmptyIndex
    /\ disk.exists /\ OnDisk.t # "dict" => h_load = "failed"
    /\ disk.exists /\ OnDisk.t = "dict" /\ Has(OnDisk.fields, "plugins")
         /\ PluginsOnDisk.t # "dict" => h_load = "failed"

\* C13, amended: either reader fails on a text that is no JSON object. The
\* reader of the discussion sync returns the empty index where there is no
\* file, and on an object never fails: a plugins value that is missing or no
\* object is replaced by {}, a missing version by 1, the rest is kept. The
\* reader of the stars pass fails where there is no file and where plugins is
\* missing or no object, and else returns the object as it is.
C13_LoadContract ==
  /\ LoadEnded /\ disk.exists /\ OnDisk.t # "dict" => h_load = "failed"
  /\ EnsureLoadEnded =>
       /\ ~disk.exists => h_load = "ok" /\ index = EmptyIndex
       /\ disk.exists /\ OnDisk.t = "dict" =>
            /\ h_load = "ok"
            /\ SameBut({"plugins", "version"})
            /\ Get(index, "plugins") =
                 (IF PluginsOnDisk.t = "dict" THEN PluginsOnDisk ELSE JDict(<<>>))
            /\ Get(index, "version") =
                 (IF Has(OnDisk.fields, "version") THEN Get(OnDisk.fields, "version")
                  ELSE JNum("1"))
  /\ StarsLoadEnded =>
       /\ ~disk.exists => h_load = "failed"
       /\ disk.exists /\ OnDisk.t = "dict" /\ PluginsOnDisk.t # "dict" => h_load = "failed"
       /\ disk.exists /\ OnDisk.t = "dict" /\ PluginsOnDisk.t = "dict" =>
            h_load = "ok" /\ index = OnDisk.fields

\* The reader of the discussion sync has returned an index for a file whose
\* plugins value is a string.
C13_Witness ==
  /\ ix_pc = "ready"
  /\ disk.exists
  /\ OnDisk.t = "dict"
  /\ PluginsOnDisk.t = "str"
  /\ Get(index, "plugins") = JDict(<<>>)

\* The reader of the stars pass has failed where there is no index.json.
C13_WitnessStars == st_pc = "failed" /\ h_load = "failed" /\ ~disk.exists

\* Either reader has failed on a text that is no JSON object.
C13_WitnessCorrupt ==
  /\ LoadEnded
  /\ disk.exists
  /\ OnDisk.t # "dict"
  /\ h_load = "failed"

\* ------------------------------------------------- discussion sync: claims

\* The discussions GitHub held when the last lookup ran.
ThreadsThen == SubSeq(discussions, 1, h_lookup.n)
HasMarker(d, name) == d.marker = name
HasExactTitle(d, name) == d.title = DiscussionTitle(name)

\* C20: the lookup for plugin P returns a discussion with P's marker if there
\* is one; else a discussion titled exactly `Plugin: P` if there is one; else
\* none; and never a discussion with neither.
C20_Lookup ==
  h_lookup.name # "" =>
    LET ds == ThreadsThen
        P == h_lookup.name
        found == h_lookup.found
    IN /\ (\E i \in DOMAIN ds : HasMarker(ds[i], P)) =>
            found # 0 /\ HasMarker(ds[found], P)
       /\ (~\E i \in DOMAIN ds : HasMarker(ds[i], P))
            /\ (\E i \in DOMAIN ds : HasExactTitle(ds[i], P)) =>
            found # 0 /\ HasExactTitle(ds[found], P)
       /\ (\A i \in DOMAIN ds : ~HasMarker(ds[i], P) /\ ~HasExactTitle(ds[i], P)) =>
            found = 0
       /\ found # 0 => HasMarker(ds[found], P) \/ HasExactTitle(ds[found], P)

\* The lookup for plugin a returned none although a discussion titled
\* `Plugin: a` was there: the title search had another title first.
C20_ExactTitleMissed ==
  /\ h_lookup.name = "a"
  /\ h_lookup.found = 0
  /\ \E i \in DOMAIN ThreadsThen : HasExactTitle(ThreadsThen[i], "a")

\* json.dumps(index, sort_keys=True) of the index in memory.
Canonical(ix) == JsonDumps(JDict(ix), TRUE)

\* The write is change-gated, as the specification words it for every run
\* that loads and writes index.json: read at most once, written at most once,
\* and written only if the canonical text differs from that of the index as
\* loaded.
C12_AsWritten ==
  /\ reads <= 1
  /\ writes <= 1
  /\ writes = 1 => Canonical(index) # Canonical(h_loaded)

\* C12, amended: either run reads index.json at most once, before anything
\* else it does with the index, and writes it at most once, as its last
\* step. The discussion sync writes if and only if the canonical text of the
\* index at the end differs from that of the index as loaded; the stars
\* apply pass writes whenever it reaches its end, changed or not.
C12_ChangeGatedWrite ==
  /\ reads <= 1
  /\ writes <= 1
  /\ writes = 1 => sy_pc = "done" \/ st_pc = "done"
  /\ sy_pc \in {"setup", "loop"} \/ st_pc = "loaded" => reads = (IF disk.exists THEN 1 ELSE 0)
  /\ sy_pc = "done" /\ pos > 0 =>
       (writes = 1 <=> Canonical(index) # Canonical(h_loaded))
  /\ sy_pc = "done" /\ pos > 0 => index_before = Canonical(h_loaded)
  /\ st_pc = "done" => writes = 1
  /\ st_pc = "failed" \/ sy_pc = "failed" => writes = 0

\* A discussion sync that changed the index has written it, and a stars pass
\* whose updates changed nothing has written it all the same.
C12_Witness ==
  /\ st_pc = "done"
  /\ writes = 1
  /\ Canonical(index) = Canonical(h_loaded)

C12_WitnessSync ==
  /\ sy_pc = "done"
  /\ writes = 1
  /\ Canonical(index) # Canonical(h_loaded)

C12_WitnessSyncUnchanged ==
  /\ sy_pc = "done"
  /\ pos > 1
  /\ writes = 0
  /\ disk.exists

\* C14: a run that repeats a run that ended well, on the same tree and the
\* same change set, creates no discussion, ends with every entry's
\* discussion field as the run before left it, and does not write index.json.
C14_Idempotence ==
  repeats =>
    /\ h_created = {}
    /\ writes = 0
    /\ sy_pc = "done" /\ pos > 0 => DiscussionFields(index) = h_prev.fields

\* A second run over plugins a and b has ended, after a first one that
\* created a discussion.
C14_Witness ==
  /\ repeats
  /\ sy_pc = "done"
  /\ plugin_names = <<"a", "b">>
  /\ Len(discussions) > Cardinality(h_closed0) + 1
  /\ Has(Get(index, "plugins").fields, "a")
  /\ DiscussionFields(index)["a"].t = "str"

\* The discussions of plugin P: those with its marker, and those titled
\* `Plugin: P` from the time before the marker.
DiscussionsOf(P) ==
  {i \in DOMAIN discussions :
     HasMarker(discussions[i], P) \/ HasExactTitle(discussions[i], P)}

\* C15: GitHub holds at most one discussion per plugin, and a run that ended
\* well has left, for every plugin of its change set that is in the tree,
\* the url of that discussion in the entry's discussion field.
C15_OnePerPlugin ==
  /\ \A P \in PluginNames : Cardinality(DiscussionsOf(P)) <= 1
  /\ sy_pc = "done" =>
       \A k \in DOMAIN plugin_names :
         PluginExists(plugin_names[k], worktree) =>
           \E i \in DiscussionsOf(plugin_names[k]) :
             DiscussionFields(index)[plugin_names[k]] = DiscussionUrl(i)

\* Plugin a has two discussions: the one from before the marker, and one
\* that a run created next to it.
C15_SecondDiscussion ==
  /\ Cardinality(DiscussionsOf("a")) = 2
  /\ \E i \in DiscussionsOf("a") : i \in h_created

\* C16: in a run that ended well, every discussion a lookup found closed is
\* open, and a reopen was sent for it; a discussion found open is open and no
\* reopen was sent for it; and no discussion is closed that was not closed
\* before the first run.
C16_Reopen ==
  /\ sy_pc = "done" =>
       \A f \in h_found :
         /\ ~discussions[f.id].closed
         /\ f.closed <=> f.id \in h_reopened
  /\ \A f \in h_found : ~f.closed => ~discussions[f.id].closed /\ f.id \notin h_reopened
  /\ {i \in DOMAIN discussions : discussions[i].closed} \subseteq h_closed0

\* A run that found the discussion of plugin a closed has ended well.
C16_Witness ==
  /\ sy_pc = "done"
  /\ \E f \in h_found : f.closed /\ f.id \in h_closed0 /\ ~discussions[f.id].closed

\* The entries of an index, by name: "absent" where there is none.
EntryOf(ix, n) ==
  LET plugins == Get(ix, "plugins")
  IN IF plugins.t # "dict" \/ ~Has(plugins.fields, n) THEN Invalid
     ELSE Get(plugins.fields, n)
InChangeSet(n) == \E k \in DOMAIN plugin_names : plugin_names[k] = n

\* C17: throughout a run without RUN_ALL, and at its end, every entry of a
\* plugin outside the change set is what _load_index returned, also where
\* the plugin's folder is gone.
C17_NoPruneIncremental ==
  sy_pc \in {"setup", "loop", "done"} /\ pos >= 0 /\ ~run_all /\ h_load = "ok" =>
    \A n \in PluginNames :
      ~InChangeSet(n) => EntryOf(index, n) = EntryOf(h_loaded, n)

\* An incremental run for plugin a has ended and has written the index; the
\* entry of b, whose folder holds no plugin.yaml, is still there.
C17_Witness ==
  /\ sy_pc = "done"
  /\ ~run_all
  /\ writes = 1
  /\ plugin_names = <<"a">>
  /\ ~PluginExists("b", worktree)
  /\ EntryOf(index, "b").t = "dict"

\* ------------------------------------------------------- failed calls

\* The requests of the publisher sent after the one at place at.
SentAfter(at) == SubSeq(pb_requests, at + 1, Len(pb_requests))

\* The failure is the 404 of the lookup of the release by its tag.
IsLookup404(f) == f.kind = "404" /\ f.req = PubReq("GET", "releases/tags", 0)

\* The failure is the 422 of the first upload of the run.
IsFirstUpload422(f) ==
  /\ f.kind = "422"
  /\ f.req = PubReq("POST", "assets", 0)
  /\ \A i \in 1..(f.at - 1) : pb_requests[i] # PubReq("POST", "assets", 0)

\* later is a start of the requests main() sends after the 422 of its first
\* upload: one DELETE for each asset of asset_name in the payload it holds, in
\* the order of the payload, the release again, the upload again.
IsRecovery(later) ==
  LET plan == [i \in 1..Cardinality(h_payload) |->
                 PubReq("DELETE", "assets",
                        CHOOSE a \in h_payload :
                          Cardinality({b \in h_payload : b < a}) = i - 1)]
              \o <<PubReq("GET", "releases/id", 0), PubReq("POST", "assets", 0)>>
  IN /\ Len(later) <= Len(plan)
     /\ \A i \in 1..Len(later) : later[i] = plan[i]

\* The run of the publisher has ended in failure.
PublishFailed == pb_pc = "failed" /\ pb_exit = "1"

\* The original sentence of C18: every failed call is the last request of its
\* run, and the run has ended in failure.
C18_AsWritten ==
  /\ \A i \in DOMAIN pb_failures :
       pb_failures[i].at = Len(pb_requests) /\ PublishFailed
  /\ \A i \in DOMAIN sw_failures :
       sw_failures[i].at = queries + Len(requests) /\ sw_pc = "failed"

\* C18: a failed call (HTTP error status, transport error, a body that is no
\* JSON object) is the last request of its run and the run ends in failure,
\* but for two calls of the publisher. After the 404 of the lookup of the
\* release by tag the run goes on and its next request creates the release.
\* After the 422 of its first upload the run goes on with one DELETE per asset
\* of that name, the release again and the upload again, in that order and
\* each once. Every failure among those requests, a second 422 included, is
\* the last request and ends the run in failure; a run that exits 0 ended
\* with an upload that did not fail.
C18_FailFast ==
  /\ \A i \in DOMAIN pb_failures :
       LET f == pb_failures[i]
       IN IF IsLookup404(f)
            THEN /\ f.at = 1
                 /\ IF Len(pb_requests) = 1 THEN pb_pc = "create"
                    ELSE pb_requests[2] = PubReq("POST", "releases", 0)
          ELSE IF IsFirstUpload422(f)
            THEN /\ IsRecovery(SentAfter(f.at))
                 /\ f.at = Len(pb_requests) =>
                      pb_pc \in {"delete", "reget"} /\ pb_exit = "none"
          ELSE f.at = Len(pb_requests) /\ PublishFailed
  /\ pb_exit = "0" =>
       /\ pb_requests # <<>>
       /\ pb_requests[Len(pb_requests)] = PubReq("POST", "assets", 0)
       /\ \A i \in DOMAIN pb_failures : pb_failures[i].at < Len(pb_requests)
  /\ \A i \in DOMAIN sw_failures :
       sw_failures[i].at = queries + Len(requests) /\ sw_pc = "failed"

\* The publisher met the 422, deleted the asset, fetched the release again and
\* uploaded again, and exits 0.
C18_Witness ==
  /\ pb_exit = "0"
  /\ Len(pb_failures) = 1
  /\ IsFirstUpload422(pb_failures[1])
  /\ SentAfter(pb_failures[1].at) =
       <<PubReq("DELETE", "assets", 1), PubReq("GET", "releases/id", 0),
         PubReq("POST", "assets", 0)>>

\* The second upload met a 422 as well, and the run failed.
C18_WitnessSecond422 ==
  /\ PublishFailed
  /\ Len(pb_failures) = 2
  /\ pb_failures[1].kind = "422"
  /\ pb_failures[2].kind = "422"

\* The sweep closed a pull request and failed at its comment.
C18_WitnessSweep ==
  /\ sw_pc = "failed"
  /\ Len(sw_failures) = 1
  /\ Len(requests) = 2
  /\ gh_closed = {1}

\* ------------------------------------------- PR validator: order of checks

\* The place of a result in the order of the checks; 11 is success.
PlaceOf(result) ==
  CASE result = "NoChanges" -> 1
    [] result = "OutOfScope" -> 2
    [] result = "MultiplePluginsTouched" -> 3
    [] result = "ReservedName" -> 4
    [] result \in {"FolderMissing", "MissingDeclaration"} -> 5
    [] result \in {"UnsupportedFile", "BadThumbnailName"} -> 6
    [] result = "MultipleThumbnails" -> 7
    [] result \in {"ThumbnailBadExtension", "ThumbnailTooLarge", "ThumbnailUnreadable",
                   "ThumbnailNotSquare"} -> 9
    [] result = "DeletionNotAllowed" -> 10
    [] result = "ok" -> 11
    [] OTHER -> 8

\* The roots plugins/<name> of the changed files.
RootsTouched == {SubSeq(p, 1, 2) : p \in {q \in ChangedFiles : Len(q) >= 2}}

\* Check k of the order applies to what the run was given.
Applies(k) ==
  CASE k = 1 -> changes = {}
    [] k = 2 -> \E p \in ChangedFiles : Len(p) < 3 \/ p[1] # "plugins"
    [] k = 3 -> Cardinality(RootsTouched) > 1
    [] k = 4 -> \E r \in RootsTouched : StartsWithUnderscore(r[2])
    [] k = 5 -> \A f \in plugin_files : ~(Len(f) = 3 /\ f[3] = "plugin.yaml")
    [] k = 6 -> \E f \in plugin_files :
                  Len(f) # 3 \/ ~(f[3] = "plugin.yaml" \/ IsThumbnailName(f[3]))
    [] k = 7 -> Cardinality({f \in plugin_files : Len(f) = 3 /\ IsThumbnailName(f[3])}) > 1
    [] k = 8 -> doc.top = "unreadable" \/ ValidateYaml(doc, repo) # "none"
    [] k = 9 -> /\ \E f \in plugin_files : Len(f) = 3 /\ IsThumbnailName(f[3])
                /\ \E f \in plugin_files :
                     /\ Len(f) = 3 /\ IsThumbnailName(f[3])
                     /\ ValidateThumbnail(Suffix(f[3]), thumb) # "none"
    [] k = 10 -> \E c \in changes : c.status = "D"

\* C19: the one failure main() reports is that of the earliest check, in the
\* order NoChanges, OutOfScope, MultiplePluginsTouched, ReservedName,
\* MissingDeclaration, unsupported file or thumbnail name, MultipleThumbnails,
\* metadata reader, thumbnail, DeletionNotAllowed, that applies; success is
\* returned only when none applies.
C19_ShortCircuitOrder ==
  v_pc = "done" =>
    LET place == PlaceOf(v_result)
    IN /\ place <= 10 => Applies(place)
       /\ \A k \in 1..10 : k < place => ~Applies(k)

\* main() returns success for a change set that touches two plugin folders:
\* MultiplePluginsTouched applies and is not reported.
C19_SuccessWhileApplies ==
  /\ v_pc = "done"
  /\ v_result = "ok"
  /\ Applies(3)

\* A change set with two violations, a deletion and a thumbnail that is not
\* square, is answered with the earlier one.
C19_EarliestReported ==
  /\ v_pc = "done"
  /\ v_result = "ThumbnailNotSquare"
  /\ Applies(10)
  /\ \A k \in 1..8 : ~Applies(k)

\* ------------------------------------------- discussion sync: the change set

\* The names of the change set whose plugin is gone from the tree.
GoneNames == {n \in PluginNames : InChangeSet(n) /\ ~PluginExists(n, worktree)}

\* The numbers of the discussions this run created or sent a reopen for that
\* belong to plugin n.
TouchedFor(n) ==
  {i \in h_created \cup h_reopened :
     HasMarker(discussions[i], n) \/ HasExactTitle(discussions[i], n)}

\* C21: for a name of the change set whose plugin is gone from the tree, the
\* run sends no discussion search, creates and reopens no discussion, and once
\* the loop has passed the name, the end of a successful run included, the
\* index holds no entry of that name, in memory and (after the end) on disk.
C21_DeletedPlugins ==
  sy_pc \in {"loop", "done", "failed"} /\ h_load = "ok" =>
    \A k \in DOMAIN plugin_names :
      LET n == plugin_names[k]
      IN n \in GoneNames =>
           /\ n \notin h_searched
           /\ TouchedFor(n) = {}
           /\ pos > k => EntryOf(index, n) = Invalid
           /\ sy_pc = "done" /\ disk.exists => EntryOf(OnDisk.fields, n) = Invalid

\* A successful run met plugin b, gone from the tree, took its entry out of
\* the index and wrote the index, after handling plugin a.
C21_Witness ==
  /\ sy_pc = "done"
  /\ plugin_names = <<"a", "b">>
  /\ GoneNames = {"b"}
  /\ EntryOf(h_loaded, "b") # Invalid
  /\ EntryOf(OnDisk.fields, "b") = Invalid
  /\ h_searched = {"a"}
  /\ writes = 1

\* ---------------------------------------------------------- pruneRemoved

\* The keys of the plugins object of an index.
PluginKeys(ix) == Keys(Get(ix, "plugins").fields)

\* The call leaves keys as the key set, every entry kept as it was, and
\* returns the number of keys it took out.
PruneLeaves(keys) ==
  /\ PluginKeys(fn_result.index) = keys
  /\ \A k \in keys : EntryOf(fn_result.index, k) = EntryOf(fn_args.index, k)
  /\ fn_result.removed = Cardinality(PluginKeys(fn_args.index) \ keys)

\* The original sentence of C22: the keys left are the prior keys but for
\* those that do not start with `_` and whose plugin is gone.
C22_AsWritten ==
  fn_pc = "returned" =>
    PruneLeaves({k \in PluginKeys(fn_args.index) :
                   StartsWithUnderscore(k) \/ PluginExists(k, fn_args.fs)})

\* C22: after _prune_removed_plugins the keys of plugins are the prior keys
\* but for the non-empty keys that do not start with `_` and whose plugin has
\* no plugin.yaml in the tree; the empty key, the keys starting with `_` and
\* the keys of existing plugins keep their entries, unchanged and in their
\* order, and the count returned is the number of keys taken out.
C22_PruneRemoved ==
  fn_pc = "returned" =>
    /\ PruneLeaves({k \in PluginKeys(fn_args.index) :
                      k = "" \/ StartsWithUnderscore(k) \/ PluginExists(k, fn_args.fs)})
    /\ Get(fn_result.index, "plugins").fields =
         SelectSeq(Get(fn_args.index, "plugins").fields,
                   LAMBDA item : item[1] \in PluginKeys(fn_result.index))

\* b, gone from the tree, was taken out; _r and a were kept.
C22_Witness ==
  /\ fn_pc = "returned"
  /\ PluginKeys(fn_args.index) = {"_r", "a", "b"}
  /\ PluginKeys(fn_result.index) = {"_r", "a"}
  /\ fn_result.removed = 1

\* The empty key was kept though the tree holds no plugin.yaml for it.
C22_WitnessEmptyKey ==
  /\ fn_pc = "returned"
  /\ "" \in PluginKeys(fn_result.index)
  /\ fn_result.removed = 2

\* ------------------------------------------------- change-set detection

\* The paths the detection starts from, as the specification has it.
SourcePaths ==
  IF fn_args.before = None \/ IsZeroSha(fn_args.before) \/ fn_args.run_all
    THEN fn_args.ls_tree ELSE fn_args.diff

\* The second path segments of the paths under plugins/.
SecondSegments == {p[2] : p \in {q \in SourcePaths : Len(q) >= 2 /\ q[1] = "plugins"}}

\* The folders under plugins/: the second segments of the paths of files in them.
PluginFolders == {p[2] : p \in {q \in SourcePaths : Len(q) >= 3 /\ q[1] = "plugins"}}

\* names is strictly ascending in str order.
Ascending(names) ==
  \A i, j \in DOMAIN names :
    i < j => \E k, l \in DOMAIN KeyOrder :
               KeyOrder[k] = names[i] /\ KeyOrder[l] = names[j] /\ k < l

\* C23: the detection returns, sorted and without duplicates, the second
\* segments of the source paths under plugins/ that do not start with `_`
\* (all files under plugins where before is absent or zeros or RUN_ALL is set,
\* else the paths of the diff), and every name returned is the name of a
\* plugin folder.
C23_Detection ==
  fn_pc = "returned" /\ fn_result.ok =>
    /\ Ascending(fn_result.names)
    /\ {fn_result.names[i] : i \in DOMAIN fn_result.names} =
         {n \in SecondSegments : ~StartsWithUnderscore(n)}
    /\ \A i \in DOMAIN fn_result.names : fn_result.names[i] \in PluginFolders

\* The file plugins/README.md made the detection return README.md, before a.
C23_FileReturned ==
  /\ fn_pc = "returned"
  /\ fn_result.ok
  /\ fn_result.names = <<"README.md", "a">>
  /\ fn_args.before = <<" ", "0", " ">>
  /\ ~fn_args.run_all

\* ------------------------------------------------------- plugin ceiling

\* The run has got past the start of main().
Detected == sy_pc \notin {"idle", "start"}

\* The environment names the repository as owner/repo.
RepositoryNamed == env.repository # "" /\ SplitRepository(env.repository) # <<>>

\* C24: a run whose change set has more names than max_plugins fails before
\* it loads the index, before it writes it, and before any call of the
\* discussion API (the lookup of repository and category included); a change
\* set of exactly max_plugins names gets to the load of the index.
C24_Ceiling ==
  Detected =>
    /\ Len(plugin_names) > max_plugins =>
         /\ sy_pc = "failed"
         /\ h_load = "none" /\ reads = 0 /\ writes = 0
         /\ index = EmptyIndex
         /\ pos = 0
         /\ h_searched = {} /\ h_created = {} /\ h_reopened = {}
    /\ Len(plugin_names) = max_plugins /\ RepositoryNamed =>
         sy_pc = "load" \/ h_load # "none"

\* Two names against a ceiling of one: the run failed at once.
C24_Witness ==
  /\ sy_pc = "failed"
  /\ plugin_names = <<"a", "b">>
  /\ max_plugins = 1
  /\ disk.exists

\* One name against a ceiling of one: the run went through and wrote the index.
C24_WitnessAtCeiling ==
  /\ sy_pc = "done"
  /\ plugin_names = <<"a">>
  /\ max_plugins = 1
  /\ writes = 1

\* ------------------------------------------------------- full rescan

\* The index a finished run leaves behind: index.json, the empty index where
\* there is no file.
Persisted == IF disk.exists THEN OnDisk.fields ELSE EmptyIndex

\* The plugins the tree holds.
PluginsInTree == {n \in PluginNames : PluginExists(n, worktree)}

\* The urls of the discussions of plugin n.
UrlsOf(n) == {DiscussionUrl(i) : i \in DiscussionsOf(n)}

\* C25: after a successful run under RUN_ALL the keys of the index that do
\* not start with `_` are the names of the plugins in the tree, and the
\* discussion field of each holds the url of a discussion of that plugin.
C25_FullRescan ==
  sy_pc = "done" /\ run_all =>
    /\ disk.exists => OnDisk.t = "dict"
    /\ {k \in PluginKeys(Persisted) : ~StartsWithUnderscore(k)} = PluginsInTree
    /\ \A n \in PluginsInTree :
         Get(EntryOf(Persisted, n).fields, "discussion") \in UrlsOf(n)

\* A run under RUN_ALL on a tree without any plugin but a reserved folder
\* returned 0 and left the entries of a and b in index.json.
C25_StaleEntriesKept ==
  /\ sy_pc = "done"
  /\ run_all
  /\ plugin_names = <<>>
  /\ PluginsInTree = {}
  /\ disk.exists /\ OnDisk.t = "dict"
  /\ PluginKeys(Persisted) = {"a", "b"}

\* A run under RUN_ALL pruned b, handled a, and wrote the index.
C25_PrunedAndSynced ==
  /\ sy_pc = "done"
  /\ run_all
  /\ PluginsInTree = {"a"}
  /\ PluginKeys(h_loaded) = {"a", "b"}
  /\ PluginKeys(Persisted) = {"a"}
  /\ writes = 1

\* ------------------------------------------------------- failed sync runs

\* The run before this one failed after it had created a discussion or sent
\* a reopen.
FailedAfterTouching == ~h_prev.ok /\ h_prev.touched # {}

\* C26: up to its end, and at its end if it fails, a run leaves index.json
\* as it met it, also where it has created or reopened discussions; and a run
\* that follows a failed run finds, for each plugin it handles, the
\* discussion the failed run created or reopened for it, and creates none.
C26_FailedRun ==
  /\ sy_pc \in {"start", "load", "setup", "loop", "failed"} => disk = h_prev.disk
  /\ ~h_prev.ok =>
       \A t \in h_prev.touched :
         \A k \in DOMAIN plugin_names :
           plugin_names[k] = t.name /\ pos > k /\ PluginExists(t.name, worktree) =>
             /\ \E f \in h_found : f.id = t.id
             /\ \A i \in h_created : ~HasMarker(discussions[i], t.name)

\* A run created the discussion of a and failed at b, index.json as before.
C26_Witness ==
  /\ sy_pc = "failed"
  /\ plugin_names = <<"a", "b">>
  /\ pos = 2
  /\ h_created # {}
  /\ \A i \in h_created : HasMarker(discussions[i], "a")
  /\ disk = h_prev.disk
  /\ disk.exists
  /\ index # h_loaded

\* The run after a failed run found the discussion that run had created,
\* created none, and wrote the index.
C26_WitnessRerun ==
  /\ sy_pc = "done"
  /\ FailedAfterTouching
  /\ \E t \in h_prev.touched : \E f \in h_found : f.id = t.id /\ t.id > 2
  /\ h_created = {}
  /\ writes = 1

\* ------------------------------------------------- stars: the two passes

\* The plugins object of index.json as it is on disk.
PluginsOnFile(d) == Get(JsonLoads(d.text).fields, "plugins").fields

\* The names of the updates file.
UpdateNames == Keys(JsonLoads(updates.text).fields)

\* Entry `after` is entry `before` but for its stars and stars_updated_at.
SameButStars(before, after) ==
  IF before.t # "dict" THEN after = before
  ELSE /\ after.t = "dict"
       /\ \A k \in (Keys(before.fields) \cup Keys(after.fields))
                     \ {"stars", "stars_updated_at"} :
            /\ Has(before.fields, k)
            /\ Has(after.fields, k)
            /\ Get(after.fields, k) = Get(before.fields, k)

\* C27: while the scan pass runs, and after it, index.json is the file the
\* pass met. index.json after the apply pass holds the names it held when the
\* pass loaded it, no more and no fewer (a name that only the updates file
\* holds gets no entry); each entry is the loaded one but for stars and
\* stars_updated_at, and the fields beside plugins are the loaded ones.
C27_TwoPassFrame ==
  /\ (st_pc \in {"scan", "batches", "scan_failed"} \/ (st_pc = "scanned" /\ sy_pc = "idle"))
       => disk = h_disk0
  /\ st_pc = "done" =>
       LET before == Get(h_loaded, "plugins").fields
           after == PluginsOnFile(disk)
           top == JsonLoads(disk.text).fields
       IN /\ Keys(after) = Keys(before)
          /\ \A n \in Keys(before) : SameButStars(Get(before, n), Get(after, n))
          /\ Keys(top) = Keys(h_loaded)
          /\ \A k \in Keys(top) \ {"plugins"} : Get(top, k) = Get(h_loaded, k)

\* An apply pass after a scan that looked stars up: the discussion sync took a
\* plugin out of the index between the passes, so the updates file names a
\* plugin the index lacks, and another entry got new stars.
C27_Witness ==
  /\ st_pc = "done"
  /\ h_queries # <<>>
  /\ UpdateNames \ Keys(PluginsOnFile(disk)) # {}
  /\ \E n \in Keys(PluginsOnFile(disk)) :
       /\ Get(Get(h_loaded, "plugins").fields, n).t = "dict"
       /\ Get(Get(PluginsOnFile(disk), n).fields, "stars") #
            Get(Get(Get(h_loaded, "plugins").fields, n).fields, "stars")

\* A scan pass that has written updates for the plugins it looked up.
C27_WitnessScan ==
  /\ st_pc = "scanned"
  /\ sy_pc = "idle"
  /\ sc_updates # <<>>
  /\ updates = File(JsonDumps(JDict(sc_updates), TRUE))
  /\ disk.exists

\* The scan pass has ended and written its updates file.
ScanEnded == st_pc \in {"scanned", "load", "loaded", "done", "failed"}

\* The blocks of all queries sent, in the order sent.
RECURSIVE Blocks(_)
Blocks(qs) == IF qs = <<>> THEN <<>> ELSE Head(qs) \o Blocks(Tail(qs))

\* Every item of the scan went out in one block of one query, and its update
\* is the answer to that block: the stars of its own repository, and no update
\* where GitHub shows no such repository.
QueriedOnce ==
  /\ Len(Blocks(h_queries)) = Len(sc_items)
  /\ \A k \in DOMAIN sc_items :
       LET item == sc_items[k]
           count == StargazerCount(item[2], item[3])
       IN /\ Blocks(h_queries)[k][2] = item[2]
          /\ Blocks(h_queries)[k][3] = item[3]
          /\ IF count = JNull THEN ~Has(sc_updates, item[1])
             ELSE /\ Has(sc_updates, item[1])
                  /\ Get(Get(sc_updates, item[1]).fields, "stars") = count

\* The names whose stars the apply pass wrote.
AppliedNames ==
  {n \in UpdateNames \cap Keys(PluginsOnFile(disk)) :
     /\ Get(PluginsOnFile(disk), n).t = "dict"
     /\ Get(JsonLoads(updates.text).fields, n).t = "dict"
     /\ Get(Get(JsonLoads(updates.text).fields, n).fields, "stars").t = "num"}

\* The repository the github field of entry n of index.json names, None
\* where it names none.
RepositoryOf(d, n) ==
  LET entry == Get(PluginsOnFile(d), n)
      gh == IF entry.t = "dict" THEN Get(entry.fields, "github") ELSE JNull
  IN IF gh.t = "str" THEN ParseRepoUrl(gh.v) ELSE None

\* The stars of entry n of index.json are those of the repository its github
\* field names, and the scan asked for that repository.
StarsOfOwnRepository(n) ==
  LET parsed == RepositoryOf(disk, n)
  IN /\ parsed # None
     /\ Get(Get(PluginsOnFile(disk), n).fields, "stars") =
          StargazerCount(parsed[1], parsed[2])
     /\ \E k \in DOMAIN Blocks(h_queries) :
          /\ Blocks(h_queries)[k][2] = parsed[1]
          /\ Blocks(h_queries)[k][3] = parsed[2]

\* C28: for any chunk size a scan that ended has sent every plugin in one
\* block of one query and matched the answer to it, and after the apply pass,
\* whatever the discussion sync upserted between the passes, the stars the
\* pass wrote on an entry are those looked up for the repository that the
\* entry's github field names now.
C28_StarsOfRepository ==
  /\ ScanEnded => QueriedOnce
  /\ st_pc = "done" /\ h_queries # <<>> => \A n \in AppliedNames : StarsOfOwnRepository(n)

\* The discussion sync gave entry a another repository between the passes, and
\* the apply pass wrote the stars of the former one on it.
C28_StaleStars ==
  /\ st_pc = "done"
  /\ "a" \in AppliedNames
  /\ RepositoryOf(h_disk0, "a") = <<"o", "p0">>
  /\ RepositoryOf(disk, "a") = <<"o", "p1">>
  /\ Get(Get(PluginsOnFile(disk), "a").fields, "stars") = StargazerCount("o", "p0")
  /\ StargazerCount("o", "p0") # StargazerCount("o", "p1")

\* A scan with a chunk size below zero: no batch, no query, an empty updates
\* file, though GitHub shows the repositories of its items.
C28_NothingQueried ==
  /\ ScanEnded
  /\ chunk_size < 0
  /\ sc_items # <<>>
  /\ h_queries = <<>>
  /\ updates = File(JsonDumps(JDict(<<>>), TRUE))

\* The stars written for entries whose github field the sync left alone, by a
\* scan in batches of one, two or all items.
C28_StarsWhereRepositoryKept ==
  /\ ScanEnded /\ chunk_size > 0 => QueriedOnce
  /\ st_pc = "done" /\ h_queries # <<>> =>
       \A n \in AppliedNames :
         RepositoryOf(disk, n) = RepositoryOf(h_disk0, n) => StarsOfOwnRepository(n)

\* Three plugins looked up in two batches, their stars applied.
C28_TwoBatches ==
  /\ st_pc = "done"
  /\ chunk_size = 2
  /\ Len(h_queries) = 2
  /\ Len(sc_items) = 3
  /\ AppliedNames = {"a", "b"}

\* ------------------------------------------------- publication: two runs

\* Both publish runs, each as a record.
Runs == {AtTurn, other}
TheOther(r) == IF r.who = who THEN other ELSE AtTurn

\* Whose index.json the bytes of asset id are: a run's, or "old" for an asset
\* that was there before both.
ByOf(id) ==
  IF \E k \in DOMAIN h_uploads : h_uploads[k].id = id
    THEN h_uploads[CHOOSE k \in DOMAIN h_uploads : h_uploads[k].id = id].by
    ELSE "old"

\* The release holds exactly one asset of the name, with the bytes of one of names.
OneAssetOf(names) ==
  /\ gh_release
  /\ Cardinality(gh_assets) = 1
  /\ \A id \in gh_assets : ByOf(id) \in names

Finished(r) == r.pc \in {"done", "failed"}

\* The requests of run r that address assets, by method.
AssetRequests(r, method) ==
  {k \in DOMAIN r.requests :
     r.requests[k].method = method /\ r.requests[k].what = "assets"}

\* Run r met a 422 at its first upload.
Met422(r) == \E k \in DOMAIN r.failures : r.failures[k].kind = "422"

\* A run that exited with 0 uploaded once, or met one 422, sent a DELETE for
\* each asset of its payload and uploaded once more.
RetriedOnce(r) ==
  IF Met422(r)
    THEN /\ Cardinality(AssetRequests(r, "POST")) = 2
         /\ {r.requests[k].n : k \in AssetRequests(r, "DELETE")} = r.payload
         /\ Cardinality({k \in DOMAIN r.failures : r.failures[k].kind = "422"}) = 1
    ELSE /\ Cardinality(AssetRequests(r, "POST")) = 1
         /\ AssetRequests(r, "DELETE") = {}

\* A run on its own that exited with 0 has left exactly one asset, its own.
SuccessfulRun ==
  \A r \in Runs :
    r.exit = "0" =>
      /\ RetriedOnce(r)
      /\ \E k \in DOMAIN h_uploads : h_uploads[k].by = r.who
      /\ TheOther(r).requests = <<>> => OneAssetOf({r.who})

\* Both runs have sent an upload to the release and both have ended.
BothFinished ==
  \A r \in Runs : Finished(r) /\ AssetRequests(r, "POST") # {}

\* Every call of run r was answered, with a failure only where the state of
\* the release makes one: no release of the tag yet (404), an asset of the name
\* in the way of an upload (422), an asset to delete that is gone (404).
AllAnswered(r) ==
  \A k \in DOMAIN r.failures : r.failures[k].kind \in {"404", "422"}

C29_WitnessAlone ==
  /\ pb_exit = "0"
  /\ Met422(AtTurn)
  /\ other.requests = <<>>
  /\ OneAssetOf({who})
  /\ h_payload = {1}

\* A run deleted the old asset and then failed to upload; the other failed
\* at its own upload: both have finished and the release holds no asset.
C29_WitnessNoAsset ==
  /\ BothFinished
  /\ gh_release
  /\ gh_assets = {}
  /\ \E r \in Runs : Met422(r) /\ AssetRequests(r, "DELETE") # {}

====
